---- MODULE Spec2Model ----
(***************************************************************************)
(* Icon-cropper editor core: the persisted workspace document and its      *)
(* pydantic schema validation (editor/schema), the WorkspaceManager        *)
(* load/save operations (editor/workspace_manager.py), the YAML            *)
(* ConfigSerializer with its timestamped backups                           *)
(* (editor/config_serializer.py) and the OverlayManager                    *)
(* (editor/overlay_model.py).                                              *)
(*                                                                         *)
(* Python strings that the code inspects character by character (overlay   *)
(* ids, screenshot filenames) are sequences of one-character strings.      *)
(* An Optional[T] value is a sequence of length at most one: None is <<>>, *)
(* a present value v is <<v>>.                                             *)
(***************************************************************************)
EXTENDS Integers, Sequences, FiniteSets, TLC

VARIABLES
    vdoc,        \* SpecValidate: the raw document handed to model_validate
    vres,        \* SpecValidate: outcome of the last load / save of vdoc
    disk,        \* workspace.json of the workspace: [exists, json, doc]
    shotFiles,   \* names of the files in the workspace's screenshots/ directory
    wsBackups,   \* backup copies of workspace.json (content of each)
    result,      \* outcome record of the last WorkspaceManager / serializer call
    cfgFile,     \* config.yaml: [exists, content]
    cfgBackups,  \* config.yaml.backup.<timestamp> files: timestamp -> content
    clock,       \* wall clock in seconds (datetime.now())
    cfgResult,   \* outcome record of the last ConfigSerializer.save
    overlays,    \* OverlayManager.overlays: id -> Overlay
    selectedOverlay, \* ConfigEditorApp.selected_overlay_id (Optional)
    omResult,    \* outcome record of the last overlay operation
    raster,      \* the image handed to extraction: [width, height]
    grid,        \* the grid config handed to extraction
    cropOut,     \* what the last extraction call returned
    cropped,     \* files under the workspace's cropped/ directory (paths)
    batchOut,    \* outcome record of the last batch_crop_workspace call
    gridEditor,  \* GridEditor: edit_mode, grid_edit_step, grid_temp_start,
                 \* grid_drag_start, grid_drag_current
    ocrEditor,   \* OCREditor: is_active, edit_step, drag_start, drag_current
    dicts,       \* the config dict objects: reference -> dict
    activeTool,  \* ToolManager.active_tool (name of the tool)
    pointer,     \* the mouse: position on the canvas, position of the last
                 \* press, button 1 down, moved with the button down since
                 \* the press
    view,        \* CanvasController zoom_level, pan_offset and canvas scroll
    evt,         \* the last event handled: [op, raised, state]
    resizer,     \* ResizeController: is_resizing, resize_mode, resize_start_pos,
                 \* resize_original_config
    ocrResizer,  \* OCRResizeController: the same fields
    pressedOverlay, \* history: selected_overlay_id at the last handle press
                 \* (not a field of the program)
    panner,      \* SelectTool.is_panning, CanvasController.is_panning and
                 \* pan_start
    conv         \* the last coordinate conversion: [op, arg, out]

valVars   == <<vdoc, vres>>
storeVars == <<disk, shotFiles, wsBackups>>
cfgVars   == <<cfgFile, cfgBackups, clock, cfgResult>>
omVars    == <<overlays, selectedOverlay, omResult>>
cropVars  == <<raster, grid, cropOut>>
batchVars == <<cropped, batchOut>>
resizeVars == <<resizer, ocrResizer, pressedOverlay, panner>>
editVars  == <<gridEditor, ocrEditor, dicts, activeTool, pointer, view, evt, resizeVars, conv>>
vars      == <<vdoc, vres, disk, shotFiles, wsBackups, result,
               cfgFile, cfgBackups, clock, cfgResult,
               overlays, selectedOverlay, omResult,
               raster, grid, cropOut, cropped, batchOut,
               gridEditor, ocrEditor, dicts, activeTool, pointer, view, evt,
               resizer, ocrResizer, pressedOverlay, panner, conv>>

(***************************************************************************)
(* Bounds of the model.                                                    *)
(***************************************************************************)
\* longest screenshots list of a document handed to validation
MaxDocShots == 2
\* highest screenshot number add_screenshot is asked to allocate
MaxShotNum == 2
\* last second of the wall clock
MaxClock == 2
\* highest numeric suffix generate_overlay_id is asked to produce
MaxOverlayNum == 2
\* most rows and most columns of a grid handed to extraction
MaxGridDim == 2
\* largest crop_padding of a grid handed to extraction
MaxCropPadding == 3

(***************************************************************************)
(* Characters and strings.                                                 *)
(***************************************************************************)
None == << >>
Some(v) == << v >>

Digits == << "0", "1", "2", "3", "4", "5", "6", "7", "8", "9" >>
DigitChars == { Digits[i] : i \in 1..10 }
LetterChars == { "a", "c", "d", "g", "i", "j", "n", "o", "p", "r" }

\* str.isalnum() on one character of the model's alphabet
IsAlnum(c) == c \in DigitChars \cup LetterChars

\* str.isdigit() on a whole string
IsDigitString(s) == Len(s) > 0 /\ \A i \in 1..Len(s) : s[i] \in DigitChars

DigitValue(c) == CHOOSE d \in 0..9 : Digits[d + 1] = c

\* int(s) for a string of decimal digits
RECURSIVE ParseInt(_)
ParseInt(s) ==
    IF Len(s) = 0 THEN 0
    ELSE 10 * ParseInt(SubSeq(s, 1, Len(s) - 1)) + DigitValue(s[Len(s)])

\* str(n) for n >= 0
RECURSIVE ToDecimal(_)
ToDecimal(n) ==
    IF n < 10 THEN << Digits[n + 1] >>
    ELSE Append(ToDecimal(n \div 10), Digits[(n % 10) + 1])

\* f"{n:03d}": decimal, left-padded with zeros to a minimum width of three
RECURSIVE ZeroPad(_, _)
ZeroPad(s, width) == IF Len(s) >= width THEN s ELSE ZeroPad(<< "0" >> \o s, width)

PadWidth == 3
Format03d(n) == ZeroPad(ToDecimal(n), PadWidth)

EndsWith(s, suffix) ==
    /\ Len(s) >= Len(suffix)
    /\ SubSeq(s, Len(s) - Len(suffix) + 1, Len(s)) = suffix

PngSuffix == << ".", "p", "n", "g" >>

\* Path(name).stem for a name with one suffix
Stem(name) == SubSeq(name, 1, Len(name) - Len(PngSuffix))

ShotName(n) == Format03d(n) \o PngSuffix

SetMax(S) == CHOOSE m \in S : \A x \in S : x <= m
SetMin(S) == CHOOSE m \in S : \A x \in S : m <= x

(***************************************************************************)
(* Values the bounded documents are built from.                            *)
(***************************************************************************)
IdGrid1   == << "g", "r", "i", "d", "_", "1" >>
IdOcr1    == << "o", "c", "r", "_", "1" >>
IdGrid9   == << "g", "r", "i", "d", "_", "9" >>
IdBadChar == << "g", "@", "1" >>

File1 == ShotName(1)
File2 == ShotName(2)
FileJpg == << "a", ".", "j", "p", "g" >>

IsoNow == "2025-11-16T10:00:00"
IsoTimestamps == { IsoNow }

\* datetime.fromisoformat(v) succeeds
ValidIsoTimestamp(v) == v \in IsoTimestamps

GridFields == { "start_x", "start_y", "cell_width", "cell_height",
                "spacing_x", "spacing_y", "columns", "rows", "crop_padding" }
OcrFields == { "x", "y", "width", "height" }

GridCfg(sx, sy, cw, ch, pad) ==
    [ start_x |-> sx, start_y |-> sy, cell_width |-> cw, cell_height |-> ch,
      spacing_x |-> 0, spacing_y |-> 0, columns |-> 2, rows |-> 1,
      crop_padding |-> pad ]
OcrCfg(px, py, w, h) == [ x |-> px, y |-> py, width |-> w, height |-> h ]

OverlayTitle == << "G", "r", "i", "d", " ", "1" >>

Overlay(id, type, config, locked) ==
    [ id |-> id, type |-> type, name |-> OverlayTitle, config |-> config,
      locked |-> locked, visible |-> TRUE ]

Shot(filename, resolution, bindings) ==
    [ filename |-> filename, captured_at |-> IsoNow, resolution |-> resolution,
      notes |-> "", overlay_bindings |-> bindings ]

(***************************************************************************)
(* Schema validation (pydantic models of editor/schema).  A model is       *)
(* validated field by field, every field error being collected; its        *)
(* mode='after' validators run only when no field failed, in definition    *)
(* order, and the first one that raises ends the validation.               *)
(***************************************************************************)
CurrentSchemaVersion == 2
MaxGridCount == 100

\* GridConfig: the fields whose Field(...) constraint fails
GridConfigErrors(c) ==
    { f \in { "start_x", "start_y", "spacing_x", "spacing_y", "crop_padding" } : c[f] < 0 }
    \cup { f \in { "cell_width", "cell_height" } : c[f] <= 0 }
    \cup { f \in { "columns", "rows" } : c[f] <= 0 \/ c[f] > MaxGridCount }

GridConfigValid(c) == GridFields \subseteq DOMAIN c /\ GridConfigErrors(c) = {}

\* OCRConfig: field constraints, then validate_region_size
OCRConfigValid(c) ==
    /\ OcrFields \subseteq DOMAIN c
    /\ c.x >= 0 /\ c.y >= 0 /\ c.width >= 0 /\ c.height >= 0
    /\ ~ ((c.width > 0 /\ c.height = 0) \/ (c.width = 0 /\ c.height > 0))

\* config: Union[GridConfig, OCRConfig] -- the variant the value validates as
ConfigVariant(c) ==
    IF GridConfigValid(c) THEN "GridConfig"
    ELSE IF OCRConfigValid(c) THEN "OCRConfig"
    ELSE "none"

\* OverlayData.validate_overlay_id_format, with Field(min_length=1)
OverlayIdFormatValid(id) ==
    /\ Len(id) >= 1
    /\ \A i \in 1..Len(id) : IsAlnum(id[i]) \/ id[i] \in { "_", "-" }

\* validate_config_matches_type with the OCR branch left out
ConfigTypeMismatchGridOnly(o) ==
    o.type = "grid" /\ ConfigVariant(o.config) # "GridConfig"

\* OverlayData.validate_config_matches_type: TRUE when it raises
ConfigTypeMismatch(o) ==
    \/ o.type = "grid" /\ ConfigVariant(o.config) # "GridConfig"
    \/ o.type = "ocr" /\ ConfigVariant(o.config) # "OCRConfig"

ModelLevel == "__model__"

\* OverlayData: names of the failing fields; the after-validator is reached
\* only when every field validated
OverlayDataErrors(o) ==
    LET fieldErrors ==
            (IF OverlayIdFormatValid(o.id) THEN {} ELSE { "id" })
            \cup (IF o.type \in { "grid", "ocr" } THEN {} ELSE { "type" })
            \cup (IF Len(o.name) >= 1 THEN {} ELSE { "name" })
            \cup (IF ConfigVariant(o.config) # "none" THEN {} ELSE { "config" })
    IN  IF fieldErrors # {} THEN fieldErrors
        ELSE IF ConfigTypeMismatch(o) THEN { ModelLevel }
        ELSE {}

\* ScreenshotMetadata.validate_filename_format, with Field(min_length=1)
FilenameValid(v) ==
    /\ Len(v) >= 1
    /\ EndsWith(v, PngSuffix)
    /\ \A i \in 1..Len(v) : v[i] \notin { "/", "\\" }

\* ScreenshotMetadata.validate_resolution, with min_length = max_length = 2
ResolutionValid(v) == Len(v) = 2 /\ v[1] > 0 /\ v[2] > 0

ScreenshotErrors(s) ==
    (IF FilenameValid(s.filename) THEN {} ELSE { "filename" })
    \cup (IF ValidIsoTimestamp(s.captured_at) THEN {} ELSE { "captured_at" })
    \cup (IF ResolutionValid(s.resolution) THEN {} ELSE { "resolution" })

\* schema_version: Literal[2], accepting a looser set of versions
SchemaVersionValidLegacy(v) == v >= 1 /\ v <= CurrentSchemaVersion

\* schema_version: Literal[2]
SchemaVersionValid(v) == v = CurrentSchemaVersion

Loc(entity, key, field) == [ entity |-> entity, key |-> key, field |-> field ]

\* every field error of a WorkspaceMetadata document, nested models included
FieldErrors(doc) ==
    (IF doc.workspace_name # "" THEN {} ELSE { Loc("workspace", << >>, "workspace_name") })
    \cup (IF SchemaVersionValid(doc.schema_version) THEN {}
          ELSE { Loc("workspace", << >>, "schema_version") })
    \cup (IF ValidIsoTimestamp(doc.created_at) THEN {}
          ELSE { Loc("workspace", << >>, "created_at") })
    \cup UNION { { Loc("overlays", k, f) : f \in OverlayDataErrors(doc.overlays[k]) } :
                 k \in DOMAIN doc.overlays }
    \cup UNION { { Loc("screenshots", ToDecimal(i - 1), f) :
                   f \in ScreenshotErrors(doc.screenshots[i]) } :
                 i \in 1..Len(doc.screenshots) }

\* validate_overlay_references looking at the first screenshot only
DanglingShotsFirstOnly(doc) ==
    { i \in 1..Len(doc.screenshots) :
        /\ i = 1
        /\ \E j \in 1..Len(doc.screenshots[i].overlay_bindings) :
              doc.screenshots[i].overlay_bindings[j] \notin DOMAIN doc.overlays }

\* validate_overlay_references: the screenshots holding an unresolved binding
DanglingShots(doc) ==
    { i \in 1..Len(doc.screenshots) :
        \E j \in 1..Len(doc.screenshots[i].overlay_bindings) :
            doc.screenshots[i].overlay_bindings[j] \notin DOMAIN doc.overlays }

\* the first unresolved binding in iteration order (screenshot, then binding)
FirstDangling(doc) ==
    LET i == SetMin(DanglingShots(doc))
        b == doc.screenshots[i].overlay_bindings
        j == SetMin({ n \in 1..Len(b) : b[n] \notin DOMAIN doc.overlays })
    IN  [ screenshot |-> doc.screenshots[i].filename, overlay_id |-> b[j] ]

ShotFilenames(doc) == { doc.screenshots[i].filename : i \in 1..Len(doc.screenshots) }

\* validate_selected_screenshot skipped while the screenshots list is empty
SelectedMissingNonEmptyOnly(doc) ==
    /\ doc.selected_screenshot # None
    /\ doc.screenshots # << >>
    /\ doc.selected_screenshot[1] \notin ShotFilenames(doc)

\* validate_selected_screenshot: TRUE when it raises
SelectedMissing(doc) ==
    /\ doc.selected_screenshot # None
    /\ doc.selected_screenshot[1] \notin ShotFilenames(doc)

\* validate_overlay_ids_match_keys: the keys whose overlay has another id
MismatchedKeys(doc) == { k \in DOMAIN doc.overlays : k # doc.overlays[k].id }

Verdict(ok, check, locs, names, available) ==
    [ ok |-> ok, check |-> check, locs |-> locs, names |-> names,
      available |-> available ]

Passed == Verdict(TRUE, "none", {}, << >>, {})

\* model_validate with validate_selected_screenshot defined (and so run)
\* ahead of validate_overlay_references
ModelValidateSelectedFirst(doc) ==
    IF FieldErrors(doc) # {}
    THEN Verdict(FALSE, "fields", FieldErrors(doc), << >>, {})
    ELSE IF SelectedMissing(doc)
    THEN Verdict(FALSE, "selected_screenshot", {},
                 << doc.selected_screenshot[1] >>, ShotFilenames(doc))
    ELSE IF DanglingShots(doc) # {}
    THEN Verdict(FALSE, "overlay_references", {},
                 << FirstDangling(doc).screenshot, FirstDangling(doc).overlay_id >>,
                 DOMAIN doc.overlays)
    ELSE IF MismatchedKeys(doc) # {}
    THEN Verdict(FALSE, "overlay_ids_match_keys", {},
                 << CHOOSE k \in MismatchedKeys(doc) : TRUE >>, {})
    ELSE Passed

\* WorkspaceMetadata.model_validate(doc)
\* validation of the fields only, the validators across fields left out
ModelValidateFieldsOnly(doc) ==
    IF FieldErrors(doc) # {}
    THEN Verdict(FALSE, "fields", FieldErrors(doc), << >>, {})
    ELSE Passed

ModelValidate(doc) ==
    IF FieldErrors(doc) # {}
    THEN Verdict(FALSE, "fields", FieldErrors(doc), << >>, {})
    ELSE IF DanglingShots(doc) # {}
    THEN Verdict(FALSE, "overlay_references", {},
                 << FirstDangling(doc).screenshot, FirstDangling(doc).overlay_id >>,
                 DOMAIN doc.overlays)
    ELSE IF SelectedMissing(doc)
    THEN Verdict(FALSE, "selected_screenshot", {},
                 << doc.selected_screenshot[1] >>, ShotFilenames(doc))
    ELSE IF MismatchedKeys(doc) # {}
    THEN Verdict(FALSE, "overlay_ids_match_keys", {},
                 << CHOOSE k \in MismatchedKeys(doc) : TRUE >>, {})
    ELSE Passed

\* the variant's own fields, as model_dump() writes a validated config
DumpConfig(c) ==
    IF ConfigVariant(c) = "GridConfig" THEN [ f \in GridFields |-> c[f] ]
    ELSE [ f \in OcrFields |-> c[f] ]

\* validated.model_dump() / model_dump_json(): the document rebuilt from the
\* validated models
ModelDump(doc) ==
    [ workspace_name |-> doc.workspace_name,
      schema_version |-> doc.schema_version,
      created_at |-> doc.created_at,
      selected_screenshot |-> doc.selected_screenshot,
      overlays |-> [ k \in DOMAIN doc.overlays |->
                       [ id |-> doc.overlays[k].id,
                         type |-> doc.overlays[k].type,
                         name |-> doc.overlays[k].name,
                         config |-> DumpConfig(doc.overlays[k].config),
                         locked |-> doc.overlays[k].locked,
                         visible |-> doc.overlays[k].visible ] ],
      screenshots |-> [ i \in 1..Len(doc.screenshots) |->
                          [ filename |-> doc.screenshots[i].filename,
                            captured_at |-> doc.screenshots[i].captured_at,
                            resolution |-> doc.screenshots[i].resolution,
                            notes |-> doc.screenshots[i].notes,
                            overlay_bindings |-> doc.screenshots[i].overlay_bindings ] ] ]

(***************************************************************************)
(* WorkspaceManager: loading and saving workspace.json.                    *)
(***************************************************************************)
WorkspaceName == "character_select"

EmptyOverlays == [ k \in {} |-> Overlay(k, "grid", GridCfg(0, 0, 1, 1, 0), FALSE) ]

\* the metadata create_workspace and _load_metadata build for a missing file
DefaultMetadata ==
    [ workspace_name |-> WorkspaceName,
      schema_version |-> CurrentSchemaVersion,
      created_at |-> IsoNow,
      selected_screenshot |-> None,
      overlays |-> EmptyOverlays,
      screenshots |-> << >> ]

NoFile == [ exists |-> FALSE, json |-> FALSE, doc |-> DefaultMetadata ]
JsonFile(doc) == [ exists |-> TRUE, json |-> TRUE, doc |-> doc ]
GarbageFile == [ exists |-> TRUE, json |-> FALSE, doc |-> DefaultMetadata ]

JsonDecodeError == Verdict(FALSE, "json_decode", {}, << >>, {})

\* _load_metadata: the default for a missing file, else the validated dump;
\* raises ValueError on invalid JSON and on a validation failure
LoadMetadata(file) ==
    IF ~ file.exists
    THEN [ raised |-> FALSE, error |-> Passed, value |-> DefaultMetadata ]
    ELSE IF ~ file.json
    THEN [ raised |-> TRUE, error |-> JsonDecodeError, value |-> DefaultMetadata ]
    ELSE IF ModelValidate(file.doc).ok
    THEN [ raised |-> FALSE, error |-> Passed, value |-> ModelDump(file.doc) ]
    ELSE [ raised |-> TRUE, error |-> ModelValidate(file.doc), value |-> DefaultMetadata ]

\* _save_metadata with the file opened for writing before the validation
SaveMetadataWriteFirst(file, metadata) ==
    IF ModelValidate(metadata).ok
    THEN [ raised |-> FALSE, error |-> Passed, file |-> JsonFile(ModelDump(metadata)) ]
    ELSE [ raised |-> TRUE, error |-> ModelValidate(metadata), file |-> JsonFile(metadata) ]

\* _save_metadata: validate, then write the validated dump; raises ValueError
\* on a validation failure, before the file is opened
SaveMetadata(file, metadata) ==
    IF ModelValidate(metadata).ok
    THEN [ raised |-> FALSE, error |-> Passed, file |-> JsonFile(ModelDump(metadata)) ]
    ELSE [ raised |-> TRUE, error |-> ModelValidate(metadata), file |-> file ]

\* create_workspace / get_workspace_path: a workspace without workspace.json
\* gets the default metadata written through _save_metadata
EnsureWorkspace(file) ==
    IF file.exists THEN file ELSE SaveMetadata(file, DefaultMetadata).file

Outcome(op, arg, raised, phase, error, found) ==
    [ op |-> op, arg |-> arg, raised |-> raised, phase |-> phase,
      error |-> error, found |-> found ]

Done(file, files, out) == [ file |-> file, files |-> files, out |-> out ]

\* add_screenshot: the number after the highest numbered *.png in screenshots/
NextShotNumber(files) ==
    LET existing == { f \in files : EndsWith(f, PngSuffix) }
        numbers == { ParseInt(Stem(f)) : f \in { g \in existing : IsDigitString(Stem(g)) } }
    IN  IF existing # {} /\ numbers # {} THEN SetMax(numbers) + 1 ELSE 1

\* add_screenshot(page_name, image); imageSaved is whether image.save(filepath)
\* returned (FALSE: it raised and the call ended there)
AddScreenshotOp(file, files, resolution, imageSaved) ==
    LET ws == EnsureWorkspace(file)
        filename == ShotName(NextShotNumber(files))
        loaded == LoadMetadata(ws)
        metadata ==
            [ loaded.value EXCEPT
                !.screenshots = Append(@, Shot(filename, resolution, << >>)),
                !.selected_screenshot = Some(filename) ]
        saved == SaveMetadata(ws, metadata)
    IN  IF ~ imageSaved
        THEN Done(ws, files, Outcome("add_screenshot", filename, TRUE, "image", Passed, FALSE))
        ELSE IF loaded.raised
        THEN Done(ws, files \cup { filename },
                  Outcome("add_screenshot", filename, TRUE, "load", loaded.error, FALSE))
        ELSE Done(saved.file, files \cup { filename },
                  Outcome("add_screenshot", filename, saved.raised, "save", saved.error, FALSE))

\* set_selected_screenshot(page_name, filename)
SetSelectedScreenshotOp(file, files, filename) ==
    LET ws == EnsureWorkspace(file)
        loaded == LoadMetadata(ws)
        metadata == [ loaded.value EXCEPT !.selected_screenshot = Some(filename) ]
        saved == SaveMetadata(ws, metadata)
    IN  IF loaded.raised
        THEN Done(ws, files,
                  Outcome("set_selected_screenshot", filename, TRUE, "load", loaded.error, FALSE))
        ELSE Done(saved.file, files,
                  Outcome("set_selected_screenshot", filename, saved.raised, "save",
                          saved.error, FALSE))

\* delete_screenshot(page_name, filename): found is the returned boolean
DeleteScreenshotOp(file, files, filename) ==
    LET ws == EnsureWorkspace(file)
        loaded == LoadMetadata(ws)
        found == \E i \in 1..Len(loaded.value.screenshots) :
                     loaded.value.screenshots[i].filename = filename
        kept == SelectSeq(loaded.value.screenshots, LAMBDA sh : sh.filename # filename)
        selected ==
            IF loaded.value.selected_screenshot = Some(filename)
            THEN (IF kept # << >> THEN Some(kept[Len(kept)].filename) ELSE None)
            ELSE loaded.value.selected_screenshot
        metadata == [ loaded.value EXCEPT !.screenshots = kept,
                                          !.selected_screenshot = selected ]
        saved == SaveMetadata(ws, metadata)
    IN  IF loaded.raised
        THEN Done(ws, files,
                  Outcome("delete_screenshot", filename, TRUE, "load", loaded.error, FALSE))
        ELSE IF ~ found
        THEN Done(ws, files,
                  Outcome("delete_screenshot", filename, FALSE, "none", Passed, FALSE))
        ELSE Done(saved.file, files \ { filename },
                  Outcome("delete_screenshot", filename, saved.raised, "save",
                          saved.error, TRUE))

\* save_workspace_overlays(page_name, overlays)
SaveWorkspaceOverlaysOp(file, files, newOverlays) ==
    LET ws == EnsureWorkspace(file)
        loaded == LoadMetadata(ws)
        metadata == [ loaded.value EXCEPT !.overlays = newOverlays ]
        saved == SaveMetadata(ws, metadata)
    IN  IF loaded.raised
        THEN Done(ws, files,
                  Outcome("save_workspace_overlays", << >>, TRUE, "load", loaded.error, FALSE))
        ELSE Done(saved.file, files,
                  Outcome("save_workspace_overlays", << >>, saved.raised, "save",
                          saved.error, FALSE))

\* save_screenshot_bindings(page_name, screenshot_filename, overlay_ids): the
\* first entry with that filename gets the bindings; without one the call
\* returns before saving
SaveScreenshotBindingsOp(file, files, filename, ids) ==
    LET ws == EnsureWorkspace(file)
        loaded == LoadMetadata(ws)
        shots == loaded.value.screenshots
        hits == { i \in 1..Len(shots) : shots[i].filename = filename }
        metadata ==
            [ loaded.value EXCEPT
                !.screenshots[SetMin(hits)].overlay_bindings = ids ]
        saved == SaveMetadata(ws, metadata)
    IN  IF loaded.raised
        THEN Done(ws, files,
                  Outcome("save_screenshot_bindings", filename, TRUE, "load",
                          loaded.error, FALSE))
        ELSE IF hits = {}
        THEN Done(ws, files,
                  Outcome("save_screenshot_bindings", filename, FALSE, "none", Passed, FALSE))
        ELSE Done(saved.file, files,
                  Outcome("save_screenshot_bindings", filename, saved.raised, "save",
                          saved.error, TRUE))

(***************************************************************************)
(* ConfigSerializer: config.yaml and its timestamped backups.  A backup    *)
(* file is named by the second it was taken in, so cfgBackups maps that    *)
(* second to the content copied.  The environment decides whether          *)
(* shutil.copy2 succeeds and how far the write gets.                       *)
(***************************************************************************)
NoConfigFile == [ exists |-> FALSE, content |-> "" ]
ConfigFile(content) == [ exists |-> TRUE, content |-> content ]

NoBackups == [ t \in {} |-> "" ]

\* _create_backup: copy config.yaml to config.yaml.backup.<now>
CreateBackup(file, backups, now, copyOk) ==
    IF ~ file.exists \/ ~ copyOk
    THEN [ ok |-> FALSE, backups |-> backups ]
    ELSE [ ok |-> TRUE,
           backups |-> [ t \in DOMAIN backups \cup { now } |->
                           IF t = now THEN file.content ELSE backups[t] ] ]

SaveResult(file, backups, success, createBackup, backup, wrote) ==
    [ file |-> file, backups |-> backups,
      out |-> [ op |-> "save", success |-> success, create_backup |-> createBackup,
                backup |-> backup, wrote |-> wrote ] ]

\* what open(path, 'w') followed by yaml.dump leaves behind
Written(file, config, write) ==
    IF write = "ok" THEN ConfigFile(config)
    ELSE IF write = "dump_failed" THEN ConfigFile("")
    ELSE file

\* save() going on to the write after a failed backup
SaveConfigIgnoringBackup(file, backups, now, config, createBackup, copyOk, write) ==
    IF createBackup /\ file.exists
    THEN SaveResult(Written(file, config, write),
                    CreateBackup(file, backups, now, copyOk).backups, write = "ok",
                    createBackup,
                    IF CreateBackup(file, backups, now, copyOk).ok THEN "ok" ELSE "failed",
                    TRUE)
    ELSE SaveResult(Written(file, config, write), backups, write = "ok",
                    createBackup, "none", TRUE)

\* save() writing first and taking the backup afterwards
SaveConfigBackupAfterWrite(file, backups, now, config, createBackup, copyOk, write) ==
    IF createBackup /\ file.exists
    THEN SaveResult(Written(file, config, write),
                    CreateBackup(Written(file, config, write), backups, now, copyOk).backups,
                    write = "ok" /\ copyOk, createBackup,
                    IF copyOk THEN "ok" ELSE "failed", TRUE)
    ELSE SaveResult(Written(file, config, write), backups, write = "ok",
                    createBackup, "none", TRUE)

\* ConfigSerializer.save(config, create_backup): the backup of an existing
\* file first, a failed backup ending the call; then the write
SaveConfig(file, backups, now, config, createBackup, copyOk, write) ==
    IF createBackup /\ file.exists
    THEN IF CreateBackup(file, backups, now, copyOk).ok
         THEN SaveResult(Written(file, config, write),
                         CreateBackup(file, backups, now, copyOk).backups,
                         write = "ok", createBackup, "ok", TRUE)
         ELSE SaveResult(file, backups, FALSE, createBackup, "failed", FALSE)
    ELSE SaveResult(Written(file, config, write), backups, write = "ok",
                    createBackup, "none", TRUE)

(***************************************************************************)
(* OverlayManager (editor/overlay_model.py).                               *)
(***************************************************************************)
TypeChars(type) ==
    IF type = "grid" THEN << "g", "r", "i", "d" >> ELSE << "o", "c", "r" >>

\* s.split(sep) for a one-character separator
RECURSIVE SplitOn(_, _)
SplitOn(s, sep) ==
    LET at == { i \in 1..Len(s) : s[i] = sep }
    IN  IF at = {} THEN << s >>
        ELSE << SubSeq(s, 1, SetMin(at) - 1) >>
             \o SplitOn(SubSeq(s, SetMin(at) + 1, Len(s)), sep)

\* get_overlays_by_type: the keys of the overlays of that type
OverlaysByType(ovs, type) == { k \in DOMAIN ovs : ovs[k].type = type }

\* the next number taken from the count of the overlays of the type
NextNumberByCount(ovs, type) == Cardinality(OverlaysByType(ovs, type)) + 1

\* generate_overlay_id: "<type>_<n>", n one more than the highest numeric
\* suffix among the ids of that type, or 1
NextOverlayNumber(ovs, type) ==
    LET ids == { ovs[k].id : k \in OverlaysByType(ovs, type) }
        numbered == { id \in ids : /\ Len(SplitOn(id, "_")) = 2
                                   /\ IsDigitString(SplitOn(id, "_")[2]) }
        numbers == { ParseInt(SplitOn(id, "_")[2]) : id \in numbered }
    IN  IF numbers # {} THEN SetMax(numbers) + 1 ELSE 1

GenerateOverlayId(ovs, type) ==
    TypeChars(type) \o << "_" >> \o ToDecimal(NextOverlayNumber(ovs, type))

\* generate_overlay_name: "Grid <count+1>" / "OCR Region <count+1>"
GenerateOverlayName(ovs, type) ==
    (IF type = "grid" THEN << "G", "r", "i", "d", " " >>
     ELSE << "O", "C", "R", " ", "R", "e", "g", "i", "o", "n", " " >>)
    \o ToDecimal(Cardinality(OverlaysByType(ovs, type)) + 1)

\* add_overlay: self.overlays[overlay.id] = overlay
AddOverlayOp(ovs, overlay) ==
    [ k \in DOMAIN ovs \cup { overlay.id } |->
        IF k = overlay.id THEN overlay ELSE ovs[k] ]

\* remove_overlay: self.overlays.pop(overlay_id, None)
RemoveOverlayOp(ovs, id) ==
    [ overlays |-> [ k \in DOMAIN ovs \ { id } |-> ovs[k] ],
      removed |-> id \in DOMAIN ovs ]

\* Overlay.toggle_lock on the overlay stored under id
ToggleLockOp(ovs, id) == [ ovs EXCEPT ![id].locked = ~ @ ]

(***************************************************************************)
(* Grid extraction: crop_grid (editor/cropper_api.py) on a numpy array and *)
(* PreviewController.extract_icons (editor/preview_controller.py) on a PIL *)
(* image.  A crop is the region of the raster it holds: its origin and     *)
(* its size; an empty crop keeps its shape and has no origin.              *)
(***************************************************************************)
Max2(a, b) == IF a >= b THEN a ELSE b
Min2(a, b) == IF a <= b THEN a ELSE b

Region(x, y, w, h) ==
    IF w = 0 \/ h = 0 THEN [ x |-> 0, y |-> 0, w |-> w, h |-> h ]
    ELSE [ x |-> x, y |-> y, w |-> w, h |-> h ]

\* numpy basic slicing: an index of a[start:stop] on an axis of length n; a
\* negative index counts from the end, and the result is clipped to 0..n
SliceIndex(i, n) ==
    IF i < 0 THEN Max2(i + n, 0) ELSE Min2(i, n)

NumpySlice(start, stop, n) ==
    [ lo |-> SliceIndex(start, n),
      len |-> Max2(SliceIndex(stop, n) - SliceIndex(start, n), 0) ]

\* top-left corner of cell (row, col)
CellX(g, col) == g.start_x + col * (g.cell_width + g.spacing_x)
CellY(g, row) == g.start_y + row * (g.cell_height + g.spacing_y)

\* body of crop_grid's loop: max / min, then image[y1:y2, x1:x2]
CropCell(img, g, row, col) ==
    LET x1 == Max2(0, CellX(g, col) + g.crop_padding)
        y1 == Max2(0, CellY(g, row) + g.crop_padding)
        x2 == Min2(img.width, CellX(g, col) + g.cell_width - g.crop_padding)
        y2 == Min2(img.height, CellY(g, row) + g.cell_height - g.crop_padding)
        xs == NumpySlice(x1, x2, img.width)
        ys == NumpySlice(y1, y2, img.height)
    IN  Region(xs.lo, ys.lo, xs.len, ys.len)

\* the nested loops of crop_grid from (row, col) on
RECURSIVE CropGridFrom(_, _, _, _)
CropGridFrom(img, g, row, col) ==
    IF row >= g.rows THEN << >>
    ELSE IF col >= g.columns THEN CropGridFrom(img, g, row + 1, 0)
    ELSE << CropCell(img, g, row, col) >> \o CropGridFrom(img, g, row, col + 1)

\* crop_grid with the loops nested the other way round
RECURSIVE CropGridByColumnFrom(_, _, _, _)
CropGridByColumnFrom(img, g, row, col) ==
    IF col >= g.columns THEN << >>
    ELSE IF row >= g.rows THEN CropGridByColumnFrom(img, g, 0, col + 1)
    ELSE << CropCell(img, g, row, col) >> \o CropGridByColumnFrom(img, g, row + 1, col)

CropGridColumnMajor(img, g) == CropGridByColumnFrom(img, g, 0, 0)

\* crop_grid leaving the empty cells out
CropGridDroppingEmpty(img, g) ==
    SelectSeq(CropGridFrom(img, g, 0, 0), LAMBDA c : c.w > 0 /\ c.h > 0)

CropGrid(img, g) == CropGridFrom(img, g, 0, 0)

\* grid_config.get(key, default)
GetOr(g, key, default) == IF key \in DOMAIN g THEN g[key] ELSE default

\* the dict extract_icons reads, every default filled in
PreviewGrid(g) ==
    [ start_x |-> GetOr(g, "start_x", 0), start_y |-> GetOr(g, "start_y", 0),
      cell_width |-> GetOr(g, "cell_width", 100),
      cell_height |-> GetOr(g, "cell_height", 100),
      spacing_x |-> GetOr(g, "spacing_x", 0), spacing_y |-> GetOr(g, "spacing_y", 0),
      columns |-> GetOr(g, "columns", 3), rows |-> GetOr(g, "rows", 4),
      crop_padding |-> GetOr(g, "crop_padding", 0) ]

\* the box extract_icons computes for cell (row, col)
PreviewBox(img, g, row, col) ==
    [ x1 |-> Max2(0, CellX(g, col) + g.crop_padding),
      y1 |-> Max2(0, CellY(g, row) + g.crop_padding),
      x2 |-> Min2(img.width, CellX(g, col) + g.cell_width - g.crop_padding),
      y2 |-> Min2(img.height, CellY(g, row) + g.cell_height - g.crop_padding) ]

\* extract_icons appending a cell as soon as its box is wider than nothing
ExtractCellWidthOnly(img, g, row, col) ==
    LET b == PreviewBox(img, g, row, col)
    IN  IF b.x2 > b.x1
        THEN << [ crop |-> Region(b.x1, b.y1, b.x2 - b.x1, Max2(b.y2 - b.y1, 0)),
                  row |-> row, col |-> col ] >>
        ELSE << >>

\* body of extract_icons' loop: the entry appended for cell (row, col), if any
ExtractCell(img, g, row, col) ==
    LET b == PreviewBox(img, g, row, col)
    IN  IF b.x2 > b.x1 /\ b.y2 > b.y1
        THEN << [ crop |-> Region(b.x1, b.y1, b.x2 - b.x1, b.y2 - b.y1),
                  row |-> row, col |-> col ] >>
        ELSE << >>

RECURSIVE ExtractIconsFrom(_, _, _, _)
ExtractIconsFrom(img, g, row, col) ==
    IF row >= g.rows THEN << >>
    ELSE IF col >= g.columns THEN ExtractIconsFrom(img, g, row + 1, 0)
    ELSE ExtractCell(img, g, row, col) \o ExtractIconsFrom(img, g, row, col + 1)

ExtractIcons(img, g) == ExtractIconsFrom(img, PreviewGrid(g), 0, 0)

(***************************************************************************)
(* batch_crop_workspace (editor/cropper_api.py).  A path below the         *)
(* workspace directory is the sequence of its components.  Whether         *)
(* Image.fromarray / save accept an array without pixels depends on the    *)
(* imaging library: the crop is saved, or the call raises and leaves no    *)
(* file, or it raises and leaves the file it had opened.                   *)
(***************************************************************************)
CroppedDir == << "c", "r", "o", "p", "p", "e", "d" >>

\* output_root / screenshot_filename / overlay_id / f"{i:03d}.png"
CropPath(shot, id, i) == << CroppedDir, shot, id, Format03d(i) \o PngSuffix >>

\* f"{screenshot_filename}/{overlay_id}"
ResultKey(shot, id) == shot \o << "/" >> \o id

\* the raster every screenshot file of the workspace decodes to
BatchRaster == [ width |-> 6, height |-> 5 ]

EmptySaveOutcomes == { "saved", "raises", "raises_file_left" }

NoResults == [ k \in {} |-> << >> ]
BatchState(raised, error, results, written) ==
    [ raised |-> raised, error |-> error, results |-> results, written |-> written ]

PutResult(results, key, paths) ==
    [ k \in DOMAIN results \cup { key } |-> IF k = key THEN paths ELSE results[k] ]

\* the save loop of a pair with enumerate counting from 0
WritePairFromZero(icons, shot, id, emptySave) ==
    [ raised |-> FALSE,
      written |-> { CropPath(shot, id, i - 1) : i \in 1..Len(icons) },
      paths |-> [ i \in 1..Len(icons) |-> CropPath(shot, id, i - 1) ] ]

\* the save loop of a pair: enumerate(icon_arrays, start=1), one file each,
\* ended by the first crop the imaging library refuses
WritePair(icons, shot, id, emptySave) ==
    LET empty == { i \in 1..Len(icons) : icons[i].w = 0 \/ icons[i].h = 0 }
    IN  IF empty = {} \/ emptySave = "saved"
        THEN [ raised |-> FALSE,
               written |-> { CropPath(shot, id, i) : i \in 1..Len(icons) },
               paths |-> [ i \in 1..Len(icons) |-> CropPath(shot, id, i) ] ]
        ELSE [ raised |-> TRUE,
               written |-> { CropPath(shot, id, i) :
                               i \in 1..(IF emptySave = "raises_file_left"
                                         THEN SetMin(empty) ELSE SetMin(empty) - 1) },
               paths |-> << >> ]

\* the loop over screenshot.overlay_bindings from position j on
RECURSIVE BatchBindings(_, _, _, _, _)
BatchBindings(ws, shot, j, acc, emptySave) ==
    IF acc.raised \/ j > Len(shot.overlay_bindings) THEN acc
    ELSE LET id == shot.overlay_bindings[j]
         IN  IF id \notin DOMAIN ws.overlays
             THEN BatchBindings(ws, shot, j + 1, acc, emptySave)
             ELSE IF ws.overlays[id].type # "grid"
             THEN BatchBindings(ws, shot, j + 1, acc, emptySave)
             ELSE LET w == WritePair(CropGrid(BatchRaster, ws.overlays[id].config),
                                     shot.filename, id, emptySave)
                  IN  BatchBindings(ws, shot, j + 1,
                        BatchState(w.raised,
                                   IF w.raised THEN "ImageError" ELSE "none",
                                   IF w.raised THEN acc.results
                                   ELSE PutResult(acc.results,
                                                  ResultKey(shot.filename, id), w.paths),
                                   acc.written \cup w.written),
                        emptySave)

\* the loop over workspace.screenshots from position i on
RECURSIVE BatchShots(_, _, _, _, _)
BatchShots(ws, files, i, acc, emptySave) ==
    IF acc.raised \/ i > Len(ws.screenshots) THEN acc
    ELSE IF ws.screenshots[i].filename \notin files
    THEN BatchShots(ws, files, i + 1, acc, emptySave)
    ELSE BatchShots(ws, files, i + 1,
                    BatchBindings(ws, ws.screenshots[i], 1, acc, emptySave), emptySave)

\* batch_crop_workspace: FileNotFoundError without workspace.json, the
\* document validated on load, then the two loops
BatchCropWorkspace(file, files, emptySave) ==
    IF ~ file.exists THEN BatchState(TRUE, "FileNotFoundError", NoResults, {})
    ELSE IF ~ file.json THEN BatchState(TRUE, "JSONDecodeError", NoResults, {})
    ELSE IF ~ ModelValidate(file.doc).ok
    THEN BatchState(TRUE, "ValidationError", NoResults, {})
    ELSE BatchShots(file.doc, files, 1, BatchState(FALSE, "none", NoResults, {}),
                    emptySave)

(***************************************************************************)
(* Coordinate transformation (editor/coordinate_system.py).                *)
(***************************************************************************)
\* int(a / b) for b > 0: the quotient truncated towards zero
TruncDiv(a, b) == IF a >= 0 THEN a \div b ELSE -((-a) \div b)

Abs(n) == IF n >= 0 THEN n ELSE -n

\* zoom_level as the fraction num/den
Zoom(num, den) == [ num |-> num, den |-> den ]
View(zoom, pan, scroll) == [ zoom |-> zoom, pan |-> pan, scroll |-> scroll ]

\* canvas_to_image_coords: canvasx/canvasy add the scroll position, then
\* int((c - pan) / zoom) on each axis
CanvasToImageCoords(pt, v) ==
    << TruncDiv((pt[1] + v.scroll[1] - v.pan[1]) * v.zoom.den, v.zoom.num),
       TruncDiv((pt[2] + v.scroll[2] - v.pan[2]) * v.zoom.den, v.zoom.num) >>

\* the pan added before the zoom is applied: int((img + pan) * zoom)
ImageToCanvasPanScaled(pt, v) ==
    << TruncDiv((pt[1] + v.pan[1]) * v.zoom.num, v.zoom.den),
       TruncDiv((pt[2] + v.pan[2]) * v.zoom.num, v.zoom.den) >>

\* image_to_canvas_coords: int(img * zoom + pan), truncated toward zero;
\* no canvas scroll enters
ImageToCanvasCoords(pt, v) ==
    << TruncDiv(pt[1] * v.zoom.num + v.pan[1] * v.zoom.den, v.zoom.den),
       TruncDiv(pt[2] * v.zoom.num + v.pan[2] * v.zoom.den, v.zoom.den) >>

(***************************************************************************)
(* GridEditor (editor/grid_editor.py): the grid drawing workflow.  The     *)
(* editor and the application share one grid_config dict; an operator that *)
(* writes to it returns the editor and the dict.                           *)
(***************************************************************************)
SET_START == "set_start"
SET_CELL  == "set_cell"
ADJUST    == "adjust"

NewGridEditor ==
    [ edit_mode |-> "none", grid_edit_step |-> SET_START,
      grid_temp_start |-> None, grid_drag_start |-> None,
      grid_drag_current |-> None ]

Edited(ed, cfg) == [ ed |-> ed, cfg |-> cfg ]

\* enter_grid_edit_mode with an image loaded
EnterGridEditMode(ed) ==
    [ ed EXCEPT !.edit_mode = "grid_edit", !.grid_edit_step = SET_START,
                !.grid_temp_start = None, !.grid_drag_start = None,
                !.grid_drag_current = None ]

\* exit_edit_mode that leaves the drag fields as they are
ExitEditModeKeepsDrag(ed) == [ ed EXCEPT !.edit_mode = "none" ]

\* exit_edit_mode: the step is left as it is
ExitEditMode(ed) ==
    [ ed EXCEPT !.edit_mode = "none", !.grid_temp_start = None,
                !.grid_drag_start = None, !.grid_drag_current = None ]

\* on_grid_click: in SET_START the image point becomes the grid start
OnGridClick(ed, cfg, pt, v) ==
    LET img == CanvasToImageCoords(pt, v)
    IN  IF ed.grid_edit_step = SET_START
        THEN Edited([ ed EXCEPT !.grid_temp_start = Some(img),
                                !.grid_drag_start = Some(img),
                                !.grid_edit_step = SET_CELL ],
                    [ cfg EXCEPT !.start_x = img[1], !.start_y = img[2] ])
        ELSE Edited(ed, cfg)

\* on_grid_drag
OnGridDrag(ed, pt, v) ==
    IF ed.grid_drag_start = None THEN ed
    ELSE [ ed EXCEPT !.grid_drag_current = Some(CanvasToImageCoords(pt, v)) ]

\* on_grid_release with the signed differences in place of abs()
OnGridReleaseSigned(ed, cfg) ==
    IF ed.grid_drag_start = None \/ ed.grid_drag_current = None
    THEN Edited(ed, cfg)
    ELSE Edited([ ed EXCEPT !.grid_edit_step = ADJUST, !.grid_drag_current = None ],
                [ cfg EXCEPT
                    !.cell_width = ed.grid_drag_current[1][1] - ed.grid_drag_start[1][1],
                    !.cell_height = ed.grid_drag_current[1][2] - ed.grid_drag_start[1][2] ])

\* on_grid_release: nothing without a drag start and a drag position; else
\* the cell size is committed and the step becomes ADJUST.  grid_drag_start
\* is left set.
OnGridRelease(ed, cfg) ==
    IF ed.grid_drag_start = None \/ ed.grid_drag_current = None
    THEN Edited(ed, cfg)
    ELSE Edited([ ed EXCEPT !.grid_edit_step = ADJUST, !.grid_drag_current = None ],
                [ cfg EXCEPT
                    !.cell_width = Abs(ed.grid_drag_current[1][1] - ed.grid_drag_start[1][1]),
                    !.cell_height = Abs(ed.grid_drag_current[1][2] - ed.grid_drag_start[1][2]) ])

\* is_dragging_cell without the test of the step
IsDraggingCellAnyStep(ed) == ed.grid_drag_start # None

\* is_dragging_cell
IsDraggingCell(ed) == ed.grid_edit_step = SET_CELL /\ ed.grid_drag_start # None

(***************************************************************************)
(* OCREditor (editor/ocr_editor.py): the OCR region drawing workflow.      *)
(***************************************************************************)
OCR_DEFINE == "define"

NewOcrEditor ==
    [ is_active |-> FALSE, edit_step |-> OCR_DEFINE, drag_start |-> None,
      drag_current |-> None ]

\* enter_ocr_edit_mode with an image loaded
EnterOcrEditMode(ed) ==
    [ ed EXCEPT !.is_active = TRUE, !.edit_step = OCR_DEFINE, !.drag_start = None,
                !.drag_current = None ]

\* exit_ocr_edit_mode: the step is left as it is
ExitOcrEditMode(ed) ==
    [ ed EXCEPT !.is_active = FALSE, !.drag_start = None, !.drag_current = None ]

\* on_ocr_click: in OCR_DEFINE the image point becomes the drag origin
OnOcrClick(ed, pt, v) ==
    IF ed.edit_step = OCR_DEFINE
    THEN [ ed EXCEPT !.drag_start = Some(CanvasToImageCoords(pt, v)) ]
    ELSE ed

\* on_ocr_drag
OnOcrDrag(ed, pt, v) ==
    IF ed.drag_start = None THEN ed
    ELSE [ ed EXCEPT !.drag_current = Some(CanvasToImageCoords(pt, v)) ]

\* on_ocr_release with the press point taken as the corner
OnOcrReleaseFromPress(ed, cfg) ==
    IF ed.drag_start = None \/ ed.drag_current = None
    THEN Edited(ed, cfg)
    ELSE LET x1 == ed.drag_start[1][1]
             y1 == ed.drag_start[1][2]
             x2 == ed.drag_current[1][1]
             y2 == ed.drag_current[1][2]
         IN  Edited([ ed EXCEPT !.edit_step = ADJUST, !.drag_start = None,
                                !.drag_current = None ],
                    [ cfg EXCEPT !.x = x1, !.y = y1,
                                 !.width = Abs(x2 - x1), !.height = Abs(y2 - y1) ])

\* on_ocr_release: nothing without a drag start and a drag position; else
\* the normalised rectangle is committed and the step becomes ADJUST
OnOcrRelease(ed, cfg) ==
    IF ed.drag_start = None \/ ed.drag_current = None
    THEN Edited(ed, cfg)
    ELSE LET x1 == ed.drag_start[1][1]
             y1 == ed.drag_start[1][2]
             x2 == ed.drag_current[1][1]
             y2 == ed.drag_current[1][2]
         IN  Edited([ ed EXCEPT !.edit_step = ADJUST, !.drag_start = None,
                                !.drag_current = None ],
                    [ cfg EXCEPT !.x = Min2(x1, x2), !.y = Min2(y1, y2),
                                 !.width = Abs(x2 - x1), !.height = Abs(y2 - y1) ])

\* is_dragging
IsDragging(ed) == ed.edit_step = OCR_DEFINE /\ ed.drag_start # None

(***************************************************************************)
(* ResizeController (editor/resize_controller.py): the eight resize        *)
(* handles of the selected grid overlay.  A handle press snapshots         *)
(* grid_config and the pointer's image position; every motion recomputes   *)
(* grid_config from the snapshot, the handle, the delta and the modifier   *)
(* keys of the motion event.  Handle tags are strings the code tests with  *)
(* ==, startswith and `in`: sequences of characters here.                  *)
(***************************************************************************)
\* str.startswith
StartsWith(s, prefix) ==
    Len(s) >= Len(prefix) /\ SubSeq(s, 1, Len(prefix)) = prefix

\* `part in s` on strings
Contains(s, part) ==
    \E i \in 1..(Len(s) - Len(part) + 1) : SubSeq(s, i, i + Len(part) - 1) = part

EdgePrefix   == << "e", "d", "g", "e", "_" >>
CornerPrefix == << "c", "o", "r", "n", "e", "r", "_" >>
PartTl     == << "t", "l" >>
PartTr     == << "t", "r" >>
PartBl     == << "b", "l" >>
PartBr     == << "b", "r" >>
PartLeft   == << "l", "e", "f", "t" >>
PartRight  == << "r", "i", "g", "h", "t" >>
PartTop    == << "t", "o", "p" >>
PartBottom == << "b", "o", "t", "t", "o", "m" >>

CornerTl   == CornerPrefix \o PartTl
CornerTr   == CornerPrefix \o PartTr
CornerBl   == CornerPrefix \o PartBl
CornerBr   == CornerPrefix \o PartBr
EdgeLeft   == EdgePrefix \o PartLeft
EdgeRight  == EdgePrefix \o PartRight
EdgeTop    == EdgePrefix \o PartTop
EdgeBottom == EdgePrefix \o PartBottom

\* the handles draw_resize_handles binds
GridHandles ==
    { CornerTl, CornerTr, CornerBl, CornerBr, EdgeLeft, EdgeRight, EdgeTop, EdgeBottom }

\* the handles draw_ocr_resize_handles binds
OcrPrefix  == << "o", "c", "r", "_" >>
OcrHandles == { OcrPrefix \o h : h \in GridHandles }

\* the modifier bits of event.state
ShiftMask == 1
CtrlMask  == 4
\* bool(state & mask) for a one-bit mask
BitSet(state, mask) == (state \div mask) % 2 = 1

\* SelectTool.__init__ and CanvasController.__init__: not panning
NewPan == [ tool_panning |-> FALSE, is_panning |-> FALSE, pan_start |-> << 0, 0 >> ]

\* SelectTool.on_mouse_press: start_pan(event) and is_panning = True
StartPan(pn, pt) == [ tool_panning |-> TRUE, is_panning |-> TRUE, pan_start |-> pt ]

\* SelectTool.on_mouse_release and on_deactivate: end_pan when the tool is
\* panning
EndPan(pn) ==
    IF pn.tool_panning
    THEN [ pn EXCEPT !.tool_panning = FALSE, !.is_panning = FALSE ]
    ELSE pn

\* __init__: no resize in progress
NewResize ==
    [ is_resizing |-> FALSE, resize_mode |-> None, resize_start_pos |-> None,
      resize_original_config |-> None ]

\* on_handle_click and start_resize: the handle, the pointer's image
\* position and a copy of the config are recorded
StartResize(tag, cfg, pt, v) ==
    [ is_resizing |-> TRUE, resize_mode |-> Some(tag),
      resize_start_pos |-> Some(CanvasToImageCoords(pt, v)),
      resize_original_config |-> Some(cfg) ]

\* _resize_edge: one dimension; with Ctrl the edge is scaled about the
\* centre, otherwise the opposite edge is meant to stay
ResizeEdge(mode, cfg, orig, dx, dy, ctrl) ==
    IF ctrl
    THEN IF mode = EdgeLeft \/ mode = EdgeRight
         THEN [ cfg EXCEPT !.start_x = orig.start_x - dx,
                           !.cell_width = Max2(1, orig.cell_width + 2 * dx) ]
         ELSE IF mode = EdgeTop \/ mode = EdgeBottom
         THEN [ cfg EXCEPT !.start_y = orig.start_y - dy,
                           !.cell_height = Max2(1, orig.cell_height + 2 * dy) ]
         ELSE cfg
    ELSE IF mode = EdgeLeft
         THEN [ cfg EXCEPT !.start_x = orig.start_x + dx,
                           !.cell_width = Max2(1, orig.cell_width - dx) ]
         ELSE IF mode = EdgeRight
         THEN [ cfg EXCEPT !.cell_width = Max2(1, orig.cell_width + dx) ]
         ELSE IF mode = EdgeTop
         THEN [ cfg EXCEPT !.start_y = orig.start_y + dy,
                           !.cell_height = Max2(1, orig.cell_height - dy) ]
         ELSE IF mode = EdgeBottom
         THEN [ cfg EXCEPT !.cell_height = Max2(1, orig.cell_height + dy) ]
         ELSE cfg

\* _resize_corner_default: the opposite corner stays, the start is derived
\* from the clamped size
ResizeCornerDefault(mode, cfg, orig, dx, dy) ==
    IF mode = CornerBr
    THEN [ cfg EXCEPT !.cell_width = Max2(1, orig.cell_width + dx),
                      !.cell_height = Max2(1, orig.cell_height + dy) ]
    ELSE IF mode = CornerTl
    THEN LET new_width == Max2(1, orig.cell_width - dx)
             new_height == Max2(1, orig.cell_height - dy)
         IN  [ cfg EXCEPT !.start_x = orig.start_x + orig.cell_width - new_width,
                          !.start_y = orig.start_y + orig.cell_height - new_height,
                          !.cell_width = new_width,
                          !.cell_height = new_height ]
    ELSE IF mode = CornerTr
    THEN LET new_height == Max2(1, orig.cell_height - dy)
         IN  [ cfg EXCEPT !.start_y = orig.start_y + orig.cell_height - new_height,
                          !.cell_width = Max2(1, orig.cell_width + dx),
                          !.cell_height = new_height ]
    ELSE IF mode = CornerBl
    THEN LET new_width == Max2(1, orig.cell_width - dx)
         IN  [ cfg EXCEPT !.start_x = orig.start_x + orig.cell_width - new_width,
                          !.cell_width = new_width,
                          !.cell_height = Max2(1, orig.cell_height + dy) ]
    ELSE cfg

\* max(a / wd, b / hd) as a fraction; wd and hd are positive
ScaleMax(a, wd, b, hd) ==
    IF a * hd >= b * wd THEN [ num |-> a, den |-> wd ] ELSE [ num |-> b, den |-> hd ]

\* max(1, int(o + scale * o)).  The code takes the quotient and the
\* product in floating point, which can fall one below the exact value
\* (int(100 - 0.55 * 100) is 44); the value here is the exact one, and the
\* two agree on every delta the specifications drag by.
Scaled(o, scale) == Max2(1, TruncDiv(o * scale.den + scale.num * o, scale.den))

\* _resize_corner_aspect_ratio (Shift): one scale for both dimensions
ResizeCornerAspectRatio(mode, cfg, orig, dx, dy) ==
    LET wd == Max2(orig.cell_width, 1)
        hd == Max2(orig.cell_height, 1)
    IN  IF mode = CornerBr
        THEN LET scale == ScaleMax(dx, wd, dy, hd)
             IN  [ cfg EXCEPT !.cell_width = Scaled(orig.cell_width, scale),
                              !.cell_height = Scaled(orig.cell_height, scale) ]
        ELSE IF mode = CornerTl
        THEN LET scale == ScaleMax(-dx, wd, -dy, hd)
                 minus == [ num |-> -scale.num, den |-> scale.den ]
                 new_width == Scaled(orig.cell_width, minus)
                 new_height == Scaled(orig.cell_height, minus)
             IN  [ cfg EXCEPT !.start_x = orig.start_x + orig.cell_width - new_width,
                              !.start_y = orig.start_y + orig.cell_height - new_height,
                              !.cell_width = new_width,
                              !.cell_height = new_height ]
        ELSE IF mode = CornerTr
        THEN LET scale == ScaleMax(dx, wd, -dy, hd)
                 new_width == Scaled(orig.cell_width, scale)
                 new_height == Scaled(orig.cell_height, scale)
             IN  [ cfg EXCEPT !.start_y = orig.start_y + orig.cell_height - new_height,
                              !.cell_width = new_width,
                              !.cell_height = new_height ]
        ELSE IF mode = CornerBl
        THEN LET scale == ScaleMax(-dx, wd, dy, hd)
                 new_width == Scaled(orig.cell_width, scale)
                 new_height == Scaled(orig.cell_height, scale)
             IN  [ cfg EXCEPT !.start_x = orig.start_x + orig.cell_width - new_width,
                              !.cell_width = new_width,
                              !.cell_height = new_height ]
        ELSE cfg

\* _resize_corner_center_fixed (Ctrl): both axes about the centre
ResizeCornerCenterFixed(mode, cfg, orig, dx, dy) ==
    IF mode = CornerBr
    THEN [ cfg EXCEPT !.start_x = orig.start_x - dx,
                      !.start_y = orig.start_y - dy,
                      !.cell_width = Max2(1, orig.cell_width + 2 * dx),
                      !.cell_height = Max2(1, orig.cell_height + 2 * dy) ]
    ELSE IF mode = CornerTl
    THEN [ cfg EXCEPT !.start_x = orig.start_x + dx,
                      !.start_y = orig.start_y + dy,
                      !.cell_width = Max2(1, orig.cell_width - 2 * dx),
                      !.cell_height = Max2(1, orig.cell_height - 2 * dy) ]
    ELSE IF mode = CornerTr
    THEN [ cfg EXCEPT !.start_x = orig.start_x - dx,
                      !.start_y = orig.start_y + dy,
                      !.cell_width = Max2(1, orig.cell_width + 2 * dx),
                      !.cell_height = Max2(1, orig.cell_height - 2 * dy) ]
    ELSE IF mode = CornerBl
    THEN [ cfg EXCEPT !.start_x = orig.start_x + dx,
                      !.start_y = orig.start_y - dy,
                      !.cell_width = Max2(1, orig.cell_width - 2 * dx),
                      !.cell_height = Max2(1, orig.cell_height + 2 * dy) ]
    ELSE cfg

\* _resize_corner: Shift goes before Ctrl
ResizeCorner(mode, cfg, orig, dx, dy, shift, ctrl) ==
    IF shift THEN ResizeCornerAspectRatio(mode, cfg, orig, dx, dy)
    ELSE IF ctrl THEN ResizeCornerCenterFixed(mode, cfg, orig, dx, dy)
    ELSE ResizeCornerDefault(mode, cfg, orig, dx, dy)

\* do_resize: the grid_config after a motion event at canvas point pt with
\* modifier state `state`; the policies write into the live grid_config
DoResize(rc, cfg, pt, v, state) ==
    IF ~ rc.is_resizing \/ rc.resize_mode = None \/ rc.resize_start_pos = None
    THEN cfg
    ELSE LET img == CanvasToImageCoords(pt, v)
             orig == rc.resize_original_config[1]
             mode == rc.resize_mode[1]
             dx == img[1] - rc.resize_start_pos[1][1]
             dy == img[2] - rc.resize_start_pos[1][2]
             ctrl_pressed == BitSet(state, CtrlMask)
             shift_pressed == BitSet(state, ShiftMask)
         IN  IF StartsWith(mode, EdgePrefix)
             THEN ResizeEdge(mode, cfg, orig, dx, dy, ctrl_pressed)
             ELSE IF StartsWith(mode, CornerPrefix)
             THEN ResizeCorner(mode, cfg, orig, dx, dy, shift_pressed, ctrl_pressed)
             ELSE cfg

\* end_resize that forgets the handle
EndResizeKeepsHandle(rc) == [ NewResize EXCEPT !.resize_mode = rc.resize_mode ]

\* end_resize
EndResize(rc) == NewResize

(***************************************************************************)
(* OCRResizeController (editor/ocr_resize_controller.py): the eight        *)
(* handles of the selected OCR overlay; no modifier keys.                  *)
(***************************************************************************)
MinOcrSize == 10

\* the bounds do_resize computes from the snapshot before normalising:
\* << x1, y1, x2, y2 >>
OcrNewBounds(mode, orig, dx, dy) ==
    LET x1 == orig.x
        y1 == orig.y
        x2 == orig.x + orig.width
        y2 == orig.y + orig.height
    IN  IF Contains(mode, PartTl) THEN << x1 + dx, y1 + dy, x2, y2 >>
        ELSE IF Contains(mode, PartTr) THEN << x1, y1 + dy, x2 + dx, y2 >>
        ELSE IF Contains(mode, PartBl) THEN << x1 + dx, y1, x2, y2 + dy >>
        ELSE IF Contains(mode, PartBr) THEN << x1, y1, x2 + dx, y2 + dy >>
        ELSE IF Contains(mode, PartLeft) THEN << x1 + dx, y1, x2, y2 >>
        ELSE IF Contains(mode, PartRight) THEN << x1, y1, x2 + dx, y2 >>
        ELSE IF Contains(mode, PartTop) THEN << x1, y1 + dy, x2, y2 >>
        ELSE IF Contains(mode, PartBottom) THEN << x1, y1, x2, y2 + dy >>
        ELSE << x1, y1, x2, y2 >>

\* the size floor of do_resize left out
OcrEnforceNothing(size) == size

\* `if width < 10: width = 10`
OcrEnforceMinimum(size) == IF size < MinOcrSize THEN MinOcrSize ELSE size

\* OCRResizeController.do_resize: the bounds are normalised and each side
\* is raised to the minimum
OcrDoResize(rc, cfg, pt, v) ==
    IF ~ rc.is_resizing \/ rc.resize_original_config = None
    THEN cfg
    ELSE LET img == CanvasToImageCoords(pt, v)
             b == OcrNewBounds(rc.resize_mode[1], rc.resize_original_config[1],
                               img[1] - rc.resize_start_pos[1][1],
                               img[2] - rc.resize_start_pos[1][2])
         IN  [ cfg EXCEPT !.x = Min2(b[1], b[3]),
                          !.y = Min2(b[2], b[4]),
                          !.width = OcrEnforceMinimum(Abs(b[3] - b[1])),
                          !.height = OcrEnforceMinimum(Abs(b[4] - b[2])) ]

\* OCRResizeController.end_resize
OcrEndResize(rc) == IF ~ rc.is_resizing THEN rc ELSE NewResize

(***************************************************************************)
(* The application state the draw tools work on (config_editor.py): the    *)
(* two scratch dicts grid_config and ocr_config, the overlays of the       *)
(* OverlayManager, each holding a reference to its own config dict, and    *)
(* the workspace the overlays are saved to.                                *)
(***************************************************************************)
GridScratchRef == 0
OcrScratchRef  == 1

DefaultGridConfig ==
    [ start_x |-> 0, start_y |-> 0, cell_width |-> 100, cell_height |-> 100,
      spacing_x |-> 0, spacing_y |-> 0, columns |-> 3, rows |-> 4,
      crop_padding |-> 0 ]
DefaultOcrConfig == OcrCfg(0, 0, 0, 0)

InitialDicts ==
    [ r \in { GridScratchRef, OcrScratchRef } |->
        IF r = GridScratchRef THEN DefaultGridConfig ELSE DefaultOcrConfig ]

NewRef(h) == SetMax(DOMAIN h) + 1

\* the dict object itself in place of dict(d)
SameDict(h, r) == [ dicts |-> h, ref |-> r ]

\* dict(d): a new dict object with the items of d
CopyDict(h, r) ==
    [ dicts |-> [ k \in DOMAIN h \cup { NewRef(h) } |->
                    IF k = NewRef(h) THEN h[r] ELSE h[k] ],
      ref |-> NewRef(h) ]

\* d[key] = value for the keys an editor wrote: the dict object r now holds cfg
StoreDict(h, r, cfg) == [ h EXCEPT ![r] = cfg ]

\* CanvasController.add_overlay(type, config): an overlay with a generated
\* id and name that holds the dict it was given; returns the id
CanvasAddOverlay(ovs, type, ref) ==
    LET id == GenerateOverlayId(ovs, type)
        overlay == [ id |-> id, type |-> type,
                     name |-> GenerateOverlayName(ovs, type),
                     config |-> ref, locked |-> FALSE, visible |-> TRUE ]
    IN  [ overlays |-> AddOverlayOp(ovs, overlay), id |-> id ]

\* OverlayManager.to_dict: asdict of every overlay
OverlaysToDict(ovs, h) ==
    [ k \in DOMAIN ovs |-> [ ovs[k] EXCEPT !.config = h[ovs[k].config] ] ]

\* Overlay.from_dict of every overlay of a loaded workspace: each overlay
\* gets the dict parsed for it
RECURSIVE LoadOverlaysInto(_, _, _)
LoadOverlaysInto(ids, docOverlays, acc) ==
    IF ids = {} THEN acc
    ELSE LET id == CHOOSE k \in ids : TRUE
             ref == NewRef(acc.dicts)
         IN  LoadOverlaysInto(ids \ { id }, docOverlays,
                 [ overlays |-> AddOverlayOp(acc.overlays,
                                    [ docOverlays[id] EXCEPT !.config = ref ]),
                   dicts |-> [ k \in DOMAIN acc.dicts \cup { ref } |->
                                 IF k = ref THEN docOverlays[id].config
                                 ELSE acc.dicts[k] ] ])

LoadOverlays(docOverlays) ==
    LoadOverlaysInto(DOMAIN docOverlays, docOverlays,
                     [ overlays |-> EmptyOverlays, dicts |-> InitialDicts ])

\* _save_current_overlays: nothing without a selected screenshot, else the
\* overlays are saved to the workspace; raises what the store raises
SaveCurrentOverlays(file, files, ovs, h) ==
    LET loaded == LoadMetadata(EnsureWorkspace(file))
    IN  IF loaded.raised
        THEN Done(EnsureWorkspace(file), files,
                  Outcome("get_selected_screenshot", << >>, TRUE, "load",
                          loaded.error, FALSE))
        ELSE IF loaded.value.selected_screenshot = None
        THEN Done(EnsureWorkspace(file), files,
                  Outcome("get_selected_screenshot", << >>, FALSE, "none", Passed, FALSE))
        ELSE SaveWorkspaceOverlaysOp(file, files, OverlaysToDict(ovs, h))

(***************************************************************************)
(* The bounded set of raw documents validation is exercised on.            *)
(***************************************************************************)
GoodGrid  == GridCfg(100, 200, 80, 60, 2)
WideGrid  == GridCfg(0, 0, 10, 8, 4)
GoodOcr   == OcrCfg(50, 50, 200, 100)
MixedOcr  == OcrCfg(50, 50, 200, 0)

OverlayKeys == { IdGrid1, IdOcr1 }
OverlayChoices ==
    { Overlay(IdGrid1, "grid", GoodGrid, FALSE), Overlay(IdGrid1, "grid", WideGrid, FALSE),
      Overlay(IdGrid1, "grid", GoodOcr, FALSE), Overlay(IdOcr1, "ocr", GoodOcr, FALSE),
      Overlay(IdOcr1, "ocr", GoodGrid, FALSE), Overlay(IdOcr1, "ocr", MixedOcr, FALSE) }
OverlayMaps ==
    UNION { [ K -> OverlayChoices ] : K \in SUBSET OverlayKeys }

FullHd == << 1920, 1080 >>
ShotChoices ==
    { Shot(File1, FullHd, << >>), Shot(File1, FullHd, << IdGrid1 >>),
      Shot(File2, FullHd, << IdGrid9 >>), Shot(File2, FullHd, << IdOcr1, IdGrid1 >>),
      Shot(FileJpg, << 0, 1080 >>, << >>) }
ShotLists == UNION { [ 1..n -> ShotChoices ] : n \in 0..MaxDocShots }

DocSet ==
    [ workspace_name : { WorkspaceName },
      schema_version : { 1, CurrentSchemaVersion },
      created_at : { IsoNow },
      selected_screenshot : { None, Some(File1), Some(File2) },
      overlays : OverlayMaps,
      screenshots : ShotLists ]

(***************************************************************************)
(* Idle values of the state each specification leaves alone.               *)
(***************************************************************************)
NoOutcome == [ via |-> "none", raised |-> FALSE, error |-> Passed,
               returned |-> None, written |-> None ]

ValIdle == vdoc = DefaultMetadata /\ vres = NoOutcome
StoreIdle == disk = NoFile /\ shotFiles = {} /\ wsBackups = {}
NoSave == [ op |-> "none", success |-> FALSE, create_backup |-> FALSE,
            backup |-> "none", wrote |-> FALSE ]
CfgIdle == cfgFile = NoConfigFile /\ cfgBackups = NoBackups /\ clock = 0
           /\ cfgResult = NoSave
OverlayCall(op, id, removed, error) ==
    [ op |-> op, id |-> id, removed |-> removed, error |-> error ]
NoRaster == [ width |-> 0, height |-> 0 ]
NoExtraction == [ op |-> "none", icons |-> << >>, entries |-> << >> ]
CropIdle == raster = NoRaster /\ grid = GridCfg(0, 0, 1, 1, 0) /\ cropOut = NoExtraction
NoBatch == [ op |-> "none", raised |-> FALSE, error |-> "none",
             results |-> NoResults, written |-> {} ]
BatchIdle == cropped = {} /\ batchOut = NoBatch
NoConversion == [ op |-> "none", arg |-> << 0, 0 >>, out |-> << 0, 0 >> ]
NoEvent == [ op |-> "none", raised |-> FALSE, state |-> 0 ]
Event(op, raised) == [ op |-> op, raised |-> raised, state |-> 0 ]
KeyEvent(op, raised, state) == [ op |-> op, raised |-> raised, state |-> state ]
PointerUp(pos) == [ pos |-> pos, press |-> pos, down |-> FALSE, moved |-> FALSE ]
DefaultView == View(Zoom(1, 1), << 0, 0 >>, << 0, 0 >>)
EditIdle == /\ gridEditor = NewGridEditor /\ ocrEditor = NewOcrEditor
            /\ dicts = InitialDicts /\ activeTool = "select"
            /\ pointer = PointerUp(<< 0, 0 >>) /\ view = DefaultView
            /\ evt = NoEvent
            /\ resizer = NewResize /\ ocrResizer = NewResize
            /\ pressedOverlay = None /\ panner = NewPan
            /\ conv = NoConversion
OmIdle == overlays = EmptyOverlays /\ selectedOverlay = None
          /\ omResult = OverlayCall("none", << >>, FALSE, "none")
NoCall == Outcome("none", << >>, FALSE, "none", Passed, FALSE)
ResultIdle == result = NoCall

(***************************************************************************)
(* SpecValidate: one document from DocSet, validated on the load path      *)
(* (_load_metadata of a workspace.json holding it) or on the save path     *)
(* (_save_metadata of it over a missing file).                             *)
(***************************************************************************)
InitValidate ==
    /\ vdoc \in DocSet
    /\ vres = NoOutcome
    /\ StoreIdle /\ CfgIdle /\ OmIdle /\ ResultIdle /\ CropIdle /\ BatchIdle /\ EditIdle

ValidateOnLoad ==
    /\ vres.via = "none"
    /\ LET r == LoadMetadata(JsonFile(vdoc))
       IN  vres' = [ via |-> "load", raised |-> r.raised, error |-> r.error,
                     returned |-> IF r.raised THEN None ELSE Some(r.value),
                     written |-> None ]
    /\ UNCHANGED << vdoc, storeVars, result, cfgVars, omVars, cropVars, batchVars, editVars >>

ValidateOnSave ==
    /\ vres.via = "none"
    /\ LET r == SaveMetadata(NoFile, vdoc)
       IN  vres' = [ via |-> "save", raised |-> r.raised, error |-> r.error,
                     returned |-> None,
                     written |-> IF r.file.exists THEN Some(r.file.doc) ELSE None ]
    /\ UNCHANGED << vdoc, storeVars, result, cfgVars, omVars, cropVars, batchVars, editVars >>

NextValidate == ValidateOnLoad \/ ValidateOnSave

SpecValidate == InitValidate /\ [][NextValidate]_vars

(***************************************************************************)
(* Properties of schema validation, checked under SpecValidate.            *)
(***************************************************************************)
Validated == vres.via # "none"

\* some screenshot of the document binds an id that is no key of overlays
HasDanglingBinding(doc) ==
    \E i \in 1..Len(doc.screenshots) :
        \E j \in 1..Len(doc.screenshots[i].overlay_bindings) :
            doc.screenshots[i].overlay_bindings[j] \notin DOMAIN doc.overlays

\* the verdict names a binding of one of the document's screenshots that is
\* no key of overlays, and lists the document's overlay keys
NamesDanglingBinding(doc, verdict) ==
    /\ verdict.check = "overlay_references"
    /\ Len(verdict.names) = 2
    /\ \E i \in 1..Len(doc.screenshots) :
          /\ doc.screenshots[i].filename = verdict.names[1]
          /\ \E j \in 1..Len(doc.screenshots[i].overlay_bindings) :
                doc.screenshots[i].overlay_bindings[j] = verdict.names[2]
    /\ verdict.names[2] \notin DOMAIN doc.overlays
    /\ verdict.available = DOMAIN doc.overlays

\* C4 as stated: every document with a binding to an id that is no key of
\* overlays is rejected, and the failure names the unresolved id and lists
\* the available overlay ids.
C4_DanglingNamedAlways ==
    (Validated /\ HasDanglingBinding(vdoc))
        => (vres.raised /\ NamesDanglingBinding(vdoc, vres.error))

\* C4 amended: every document with a binding to an id that is no key of
\* overlays is rejected; when the document passes the per-entity field
\* checks, the failure names an unresolved id with its screenshot and lists
\* the available overlay ids (otherwise the failure is the field errors).
C4_DanglingRejected ==
    (Validated /\ HasDanglingBinding(vdoc))
        => /\ vres.raised
           /\ FieldErrors(vdoc) = {} => NamesDanglingBinding(vdoc, vres.error)
           /\ FieldErrors(vdoc) # {} => vres.error.check = "fields"

\* a document whose only dangling binding sits in its second screenshot was
\* validated and the failure names it
C4_Witness ==
    /\ Validated
    /\ Len(vdoc.screenshots) = 2
    /\ vdoc.screenshots[1].overlay_bindings = << >>
    /\ HasDanglingBinding(vdoc)
    /\ vres.raised
    /\ vres.error.check = "overlay_references"
    /\ vres.error.names[2] = IdGrid9

C5_ViolatesSelected(doc) ==
    /\ doc.selected_screenshot # None
    /\ \A i \in 1..Len(doc.screenshots) :
          doc.screenshots[i].filename # doc.selected_screenshot[1]

C5_ViolatesKeys(doc) == \E k \in DOMAIN doc.overlays : doc.overlays[k].id # k

\* the earliest check the document violates, in the documented order
C5_EarliestViolated(doc) ==
    IF FieldErrors(doc) # {} THEN "fields"
    ELSE IF HasDanglingBinding(doc) THEN "overlay_references"
    ELSE IF C5_ViolatesSelected(doc) THEN "selected_screenshot"
    ELSE IF C5_ViolatesKeys(doc) THEN "overlay_ids_match_keys"
    ELSE "none"

\* C5: on the load path and on the save path alike, the reported failure is
\* that of the earliest violated check in the order (1) field checks,
\* (2) overlay binding references, (3) selected_screenshot, (4) overlay key
\* equals overlay id; a document violating none of them is accepted.
C5_EarliestCheckReported ==
    Validated =>
        /\ vres.error.check = C5_EarliestViolated(vdoc)
        /\ vres.raised <=> C5_EarliestViolated(vdoc) # "none"

\* a document violating checks (2), (3) and (4) at once was saved and the
\* reference failure was the one reported
C5_Witness ==
    /\ vres.via = "save"
    /\ FieldErrors(vdoc) = {}
    /\ HasDanglingBinding(vdoc)
    /\ C5_ViolatesSelected(vdoc)
    /\ C5_ViolatesKeys(vdoc)
    /\ vres.error.check = "overlay_references"

\* C6: a document whose schema_version is not the current version (2) is
\* rejected on load and on save whatever the rest of its content, the
\* failure is the schema_version field, and nothing is returned or written
\* in its place (no migration).
C6_SchemaGate ==
    (Validated /\ vdoc.schema_version # CurrentSchemaVersion)
        => /\ vres.raised
           /\ vres.error.check = "fields"
           /\ Loc("workspace", << >>, "schema_version") \in vres.error.locs
           /\ vres.returned = None
           /\ vres.written = None

\* a version-1 document that is valid in every other respect was loaded and
\* rejected
C6_Witness ==
    /\ vres.via = "load"
    /\ vdoc.schema_version = 1
    /\ vdoc.overlays # EmptyOverlays
    /\ ModelValidate([ vdoc EXCEPT !.schema_version = CurrentSchemaVersion ]).ok
    /\ vres.raised

\* the overlay's config is of the variant its type does not name
C7_VariantMismatch(o) ==
    \/ o.type = "grid" /\ OCRConfigValid(o.config) /\ ~ GridConfigValid(o.config)
    \/ o.type = "ocr" /\ GridConfigValid(o.config)

\* C7: a document holding an overlay of type grid with an OCR config, or of
\* type ocr with a grid config, is always rejected with a validation error
\* at that overlay; no coerced document is returned or written.
C7_MismatchRejected ==
    Validated =>
        \A k \in DOMAIN vdoc.overlays :
            C7_VariantMismatch(vdoc.overlays[k])
                => /\ vres.raised
                   /\ vres.error.check = "fields"
                   /\ \E loc \in vres.error.locs :
                         loc.entity = "overlays" /\ loc.key = k
                   /\ vres.returned = None
                   /\ vres.written = None

\* an otherwise valid document with one ocr overlay carrying a grid config
\* was saved and rejected
C7_Witness ==
    /\ vres.via = "save"
    /\ vres.raised
    /\ IdOcr1 \in DOMAIN vdoc.overlays
    /\ vdoc.overlays[IdOcr1].type = "ocr"
    /\ vdoc.overlays[IdOcr1].config = GoodGrid
    /\ vres.error.locs = { Loc("overlays", IdOcr1, ModelLevel) }

\* C8: a document whose selected_screenshot is set to a name that is the
\* filename of none of its screenshots is rejected; a null
\* selected_screenshot is accepted, that is, a document with a null
\* selection is rejected only for violating one of the other checks.
C8_SelectedChecked ==
    Validated =>
        /\ C5_ViolatesSelected(vdoc) => vres.raised
        /\ vdoc.selected_screenshot = None
              => /\ vres.error.check # "selected_screenshot"
                 /\ vres.raised <=> \/ FieldErrors(vdoc) # {}
                                    \/ HasDanglingBinding(vdoc)
                                    \/ C5_ViolatesKeys(vdoc)

\* a document with no screenshot and a selected name was validated and
\* rejected by the selected_screenshot check
C8_Witness ==
    /\ Validated
    /\ vdoc.screenshots = << >>
    /\ vdoc.selected_screenshot = Some(File2)
    /\ vres.raised
    /\ vres.error.check = "selected_screenshot"

\* C9 as stated: validation of a workspace document, on load and on save,
\* rejects every grid overlay whose crop_padding * 2 >= min(cell_width,
\* cell_height).
C9_PaddingRejected ==
    Validated =>
        \A k \in DOMAIN vdoc.overlays :
            LET o == vdoc.overlays[k]
            IN  ( /\ o.type = "grid"
                  /\ GridFields \subseteq DOMAIN o.config
                  /\ \/ o.config.crop_padding * 2 >= o.config.cell_width
                     \/ o.config.crop_padding * 2 >= o.config.cell_height )
                    => vres.raised

(***************************************************************************)
(* SpecStore: the WorkspaceManager operations on one workspace, starting   *)
(* from a workspaces root without the workspace.                           *)
(***************************************************************************)
\* inputs of the operations
OverlayInputs ==
    { EmptyOverlays,
      [ k \in { IdGrid1 } |-> Overlay(IdGrid1, "grid", GoodGrid, FALSE) ],
      [ k \in { IdGrid1, IdOcr1 } |->
          IF k = IdGrid1 THEN Overlay(IdGrid1, "grid", GoodGrid, FALSE)
          ELSE Overlay(IdOcr1, "ocr", GoodOcr, FALSE) ],
      [ k \in { IdOcr1 } |-> Overlay(IdGrid1, "grid", GoodGrid, FALSE) ],
      [ k \in { IdGrid1 } |-> Overlay(IdGrid1, "grid", GoodOcr, FALSE) ] }
BindingInputs == { << >>, << IdGrid1 >>, << IdGrid1, IdOcr1 >> }
FilenameInputs == { ShotName(n) : n \in 1..(MaxShotNum + 1) }
ImageSizes == { FullHd, << 0, 1080 >> }

InitStore ==
    /\ StoreIdle /\ ResultIdle
    /\ ValIdle /\ CfgIdle /\ OmIdle /\ CropIdle /\ BatchIdle /\ EditIdle

Apply(done) ==
    /\ disk' = done.file
    /\ shotFiles' = done.files
    /\ result' = done.out
    /\ UNCHANGED << wsBackups, valVars, cfgVars, omVars, cropVars, batchVars, editVars >>

CreateWorkspace ==
    /\ disk' = EnsureWorkspace(disk)
    /\ result' = Outcome("create_workspace", << >>, FALSE, "none", Passed, FALSE)
    /\ UNCHANGED << shotFiles, wsBackups, valVars, cfgVars, omVars, cropVars, batchVars, editVars >>

\* an image of zero width may or may not be written by image.save
AddScreenshot ==
    /\ NextShotNumber(shotFiles) <= MaxShotNum
    /\ \E size \in ImageSizes, imageSaved \in BOOLEAN :
          /\ imageSaved \/ ~ ResolutionValid(size)
          /\ Apply(AddScreenshotOp(disk, shotFiles, size, imageSaved))

SetSelectedScreenshot ==
    \E f \in FilenameInputs : Apply(SetSelectedScreenshotOp(disk, shotFiles, f))

DeleteScreenshot ==
    \E f \in FilenameInputs : Apply(DeleteScreenshotOp(disk, shotFiles, f))

SaveWorkspaceOverlays ==
    \E ovs \in OverlayInputs : Apply(SaveWorkspaceOverlaysOp(disk, shotFiles, ovs))

SaveScreenshotBindings ==
    \E f \in FilenameInputs, ids \in BindingInputs :
        Apply(SaveScreenshotBindingsOp(disk, shotFiles, f, ids))

NextStore ==
    \/ CreateWorkspace
    \/ AddScreenshot
    \/ SetSelectedScreenshot
    \/ DeleteScreenshot
    \/ SaveWorkspaceOverlays
    \/ SaveScreenshotBindings

SpecStore == InitStore /\ [][NextStore]_vars

SaveRejected == result.phase = "save" /\ result.raised

\* C1 as stated: when an operation's save is rejected by validation, the
\* persisted workspace.json is exactly as it was before the call.
C1_FileUntouchedOnRejectedSave ==
    [][ SaveRejected' => disk' = disk ]_vars

\* C1 amended: when an operation's save is rejected by validation, the
\* rejected save writes nothing: an existing workspace.json is exactly as it
\* was before the call, and a workspace that had no workspace.json holds the
\* default empty document that get_workspace_path wrote at the start of the
\* call.
C1_RejectedSaveWritesNothing ==
    [][ SaveRejected' =>
          /\ disk.exists => disk' = disk
          /\ ~ disk.exists => disk' = JsonFile(DefaultMetadata) ]_vars

\* a save of bindings to a missing overlay was rejected on a workspace that
\* holds a screenshot
C1_Witness ==
    /\ SaveRejected
    /\ result.op = "save_screenshot_bindings"
    /\ result.error.check = "overlay_references"
    /\ disk.exists
    /\ Len(disk.doc.screenshots) >= 1

(***************************************************************************)
(* SpecSave: the two save paths side by side -- ConfigSerializer.save on   *)
(* config.yaml and WorkspaceManager.save_workspace_overlays on             *)
(* workspace.json -- with the wall clock advancing between calls.          *)
(***************************************************************************)
ConfigContents == { "grid: A", "grid: B" }
WriteOutcomes == { "ok", "open_failed", "dump_failed" }

InitSave ==
    /\ cfgFile \in { NoConfigFile } \cup { ConfigFile(c) : c \in ConfigContents }
    /\ cfgBackups = NoBackups
    /\ clock = 0
    /\ cfgResult = NoSave
    /\ StoreIdle /\ ResultIdle /\ ValIdle /\ OmIdle /\ CropIdle /\ BatchIdle /\ EditIdle

Tick ==
    /\ clock < MaxClock
    /\ clock' = clock + 1
    /\ UNCHANGED << cfgFile, cfgBackups, cfgResult, storeVars, result, valVars, omVars, cropVars, batchVars, editVars >>

ConfigSave ==
    \E config \in ConfigContents, createBackup \in BOOLEAN, write \in WriteOutcomes,
       copyOk \in (IF cfgFile.exists THEN BOOLEAN ELSE { TRUE }) :
        LET r == SaveConfig(cfgFile, cfgBackups, clock, config, createBackup, copyOk, write)
        IN  /\ cfgFile' = r.file
            /\ cfgBackups' = r.backups
            /\ cfgResult' = r.out
            /\ UNCHANGED << clock, storeVars, result, valVars, omVars, cropVars, batchVars, editVars >>

WorkspaceSave ==
    \E ovs \in OverlayInputs :
        LET r == SaveWorkspaceOverlaysOp(disk, shotFiles, ovs)
        IN  /\ disk' = r.file
            /\ shotFiles' = r.files
            /\ result' = r.out
            /\ UNCHANGED << wsBackups, cfgVars, valVars, omVars, cropVars, batchVars, editVars >>

NextSave == Tick \/ ConfigSave \/ WorkspaceSave

SpecSave == InitSave /\ [][NextSave]_vars

C3_FailedBackupStopsSave ==
    [][ (cfgResult'.op = "save" /\ cfgResult'.backup = "failed")
          => /\ ~ cfgResult'.success
             /\ ~ cfgResult'.wrote
             /\ cfgFile' = cfgFile ]_vars

\* a save found config.yaml present, its backup failed, and the file is
\* still there with a backup from an earlier save beside it
C3_Witness ==
    /\ cfgResult.op = "save" /\ cfgResult.backup = "failed"
    /\ ~ cfgResult.success
    /\ cfgFile.exists
    /\ DOMAIN cfgBackups # {}

(***************************************************************************)
(* SpecOverlay: an OverlayManager to which overlays with generated ids are *)
(* added, locked, unlocked and removed.                                    *)
(***************************************************************************)
OverlayTypes == { "grid", "ocr" }
OverlayIdInputs ==
    { TypeChars(t) \o << "_" >> \o ToDecimal(n) :
        t \in OverlayTypes, n \in 1..(MaxOverlayNum + 1) }

InitOverlay == OmIdle /\ StoreIdle /\ ResultIdle /\ ValIdle /\ CfgIdle
               /\ CropIdle /\ BatchIdle /\ EditIdle

AddOverlay ==
    \E type \in OverlayTypes :
        /\ NextOverlayNumber(overlays, type) <= MaxOverlayNum
        /\ LET id == GenerateOverlayId(overlays, type)
               overlay == [ id |-> id, type |-> type,
                            name |-> GenerateOverlayName(overlays, type),
                            config |-> IF type = "grid" THEN GoodGrid ELSE GoodOcr,
                            locked |-> FALSE, visible |-> TRUE ]
           IN  /\ overlays' = AddOverlayOp(overlays, overlay)
               /\ omResult' = OverlayCall("add_overlay", id, FALSE, "none")
        /\ UNCHANGED << selectedOverlay, storeVars, result, valVars, cfgVars,
                     cropVars, batchVars, editVars >>

RemoveOverlay ==
    \E id \in OverlayIdInputs :
        /\ overlays' = RemoveOverlayOp(overlays, id).overlays
        /\ omResult' = OverlayCall("remove_overlay", id,
                                   RemoveOverlayOp(overlays, id).removed, "none")
        /\ UNCHANGED << selectedOverlay, storeVars, result, valVars, cfgVars,
                     cropVars, batchVars, editVars >>

ToggleLock ==
    \E id \in DOMAIN overlays :
        /\ overlays' = ToggleLockOp(overlays, id)
        /\ omResult' = OverlayCall("toggle_lock", id, FALSE, "none")
        /\ UNCHANGED << selectedOverlay, storeVars, result, valVars, cfgVars,
                     cropVars, batchVars, editVars >>

\* overlay maps a workspace document can hold: ids of the generated form
\* with a gap, and ids the id format allows that were not generated
IdGrid2   == << "g", "r", "i", "d", "_", "2" >>
IdGridX   == << "g", "r", "i", "d", "_", "x" >>
IdOcr01   == << "o", "c", "r", "_", "0", "1" >>
IdMain    == << "m", "a", "i", "n", "-", "g", "r", "i", "d" >>
IdNested  == << "a", "_", "b", "_", "7" >>
IdOther2  == << "x", "_", "2" >>
OverlaysOf(ids, ocrIds) ==
    [ k \in ids |-> IF k \in ocrIds THEN Overlay(k, "ocr", GoodOcr, FALSE)
                                     ELSE Overlay(k, "grid", GoodGrid, FALSE) ]
StoredOverlayMaps ==
    { OverlaysOf({ IdGrid2, IdOcr1 }, { IdOcr1 }),
      OverlaysOf({ IdGrid1, IdGridX, IdMain, IdNested, IdOcr01, IdOther2 },
                 { IdOcr01, IdOther2 }) }

\* OverlayManager.from_dict: the overlays are replaced by those of a
\* stored document
ManagerFromDict ==
    \E data \in StoredOverlayMaps :
        /\ overlays' = data
        /\ omResult' = OverlayCall("from_dict", << >>, FALSE, "none")
        /\ UNCHANGED << selectedOverlay, storeVars, result, valVars, cfgVars,
                     cropVars, batchVars, editVars >>

\* generate_overlay_id called on the manager as it is
GenerateId ==
    \E type \in OverlayTypes :
        /\ omResult' = OverlayCall("generate_overlay_id",
                                   GenerateOverlayId(overlays, type), FALSE, "none")
        /\ UNCHANGED << overlays, selectedOverlay, storeVars, result, valVars, cfgVars,
                     cropVars, batchVars, editVars >>

NextOverlay == AddOverlay \/ RemoveOverlay \/ ToggleLock \/ ManagerFromDict \/ GenerateId

SpecOverlay == InitOverlay /\ [][NextOverlay]_vars

\* C10 as stated: removing an overlay whose locked flag is true fails with a
\* locked-resource error and leaves the overlay map unchanged, through
\* OverlayManager.remove_overlay as through any other entry point.
C10_LockedRemoveRefused ==
    [][ ( /\ omResult'.op = "remove_overlay"
          /\ omResult'.id \in DOMAIN overlays
          /\ overlays[omResult'.id].locked )
          => /\ overlays' = overlays
             /\ omResult'.error = "LockedResourceError" ]_vars

(***************************************************************************)
(* SpecCrop: one extraction call, crop_grid or extract_icons, on a raster  *)
(* and a schema-valid grid config.                                         *)
(***************************************************************************)
Rasters == { [ width |-> 6, height |-> 5 ] }
CropGrids ==
    { [ start_x |-> sx, start_y |-> sy, cell_width |-> cw, cell_height |-> ch,
        spacing_x |-> px, spacing_y |-> py, columns |-> cols, rows |-> rws,
        crop_padding |-> pad ] :
        sx \in { 0, 3, 7 }, sy \in { 0, 2, 6 }, cw \in { 2, 4 }, ch \in { 2, 3 },
        px \in { 0, 1 }, py \in { 0, 1 },
        cols \in 1..MaxGridDim, rws \in 1..MaxGridDim, pad \in 0..MaxCropPadding }

InitCrop ==
    /\ raster \in Rasters
    /\ grid \in { g \in CropGrids : GridConfigValid(g) }
    /\ cropOut = NoExtraction
    /\ BatchIdle /\ StoreIdle /\ ResultIdle /\ ValIdle /\ CfgIdle /\ OmIdle /\ EditIdle

CropGridCall ==
    /\ cropOut.op = "none"
    /\ cropOut' = [ op |-> "crop_grid", icons |-> CropGrid(raster, grid),
                    entries |-> << >> ]
    /\ UNCHANGED << raster, grid, batchVars, storeVars, result, valVars, cfgVars, omVars, editVars >>

ExtractIconsCall ==
    /\ cropOut.op = "none"
    /\ LET out == ExtractIcons(raster, grid)
       IN  cropOut' = [ op |-> "extract_icons",
                        icons |-> [ i \in 1..Len(out) |-> out[i].crop ],
                        entries |-> [ i \in 1..Len(out) |-> << out[i].row, out[i].col >> ] ]
    /\ UNCHANGED << raster, grid, batchVars, storeVars, result, valVars, cfgVars, omVars, editVars >>

NextCrop == CropGridCall \/ ExtractIconsCall

SpecCrop == InitCrop /\ [][NextCrop]_vars

\* C11: the crop at index N of crop_grid's result is the crop of the cell in
\* row N div columns and column N mod columns.
C11_RowMajorOrder ==
    cropOut.op = "crop_grid" =>
        \A n \in 0..(Len(cropOut.icons) - 1) :
            cropOut.icons[n + 1] =
                CropCell(raster, grid, n \div grid.columns, n % grid.columns)

\* crop_grid ran on a grid of at least two rows and two columns whose second
\* and third crops differ
C11_Witness ==
    /\ cropOut.op = "crop_grid"
    /\ grid.rows >= 2 /\ grid.columns >= 2
    /\ Len(cropOut.icons) >= 4
    /\ cropOut.icons[2] # cropOut.icons[3]
    /\ cropOut.icons[2].w > 0 /\ cropOut.icons[3].w > 0

\* clamp(v, lo, hi)
Clamp(v, lo, hi) == Max2(lo, Min2(v, hi))

\* the crop box of cell (row, col) with both corners clamped to the raster
ClampedBox(img, g, row, col) ==
    [ x1 |-> Clamp(CellX(g, col) + g.crop_padding, 0, img.width),
      y1 |-> Clamp(CellY(g, row) + g.crop_padding, 0, img.height),
      x2 |-> Clamp(CellX(g, col) + g.cell_width - g.crop_padding, 0, img.width),
      y2 |-> Clamp(CellY(g, row) + g.cell_height - g.crop_padding, 0, img.height) ]

Collapsed(b) == b.x2 <= b.x1 \/ b.y2 <= b.y1

Cells(g) == (0..(g.rows - 1)) \X (0..(g.columns - 1))

CollapsedCells(img, g) ==
    { c \in Cells(g) : Collapsed(ClampedBox(img, g, c[1], c[2])) }

\* C12 as stated: an extraction produces no output entry for a cell whose
\* clamped crop box has zero or negative area.
C12_CollapsedCellsDropped ==
    cropOut.op # "none" =>
        Len(cropOut.icons)
            = Cardinality(Cells(PreviewGrid(grid)) \ CollapsedCells(raster, PreviewGrid(grid)))

\* C12 amended: extract_icons produces an entry for exactly the cells whose
\* clamped crop box has positive area, each once; crop_grid produces an entry
\* for every cell, the collapsed ones included.
C12_PreviewDropsCollapsedCells ==
    /\ cropOut.op = "extract_icons" =>
          /\ { cropOut.entries[i] : i \in 1..Len(cropOut.entries) }
                = Cells(PreviewGrid(grid)) \ CollapsedCells(raster, PreviewGrid(grid))
          /\ \A i, j \in 1..Len(cropOut.entries) :
                cropOut.entries[i] = cropOut.entries[j] => i = j
          /\ \A i \in 1..Len(cropOut.icons) :
                cropOut.icons[i].w > 0 /\ cropOut.icons[i].h > 0
    /\ cropOut.op = "crop_grid" =>
          \A c \in CollapsedCells(raster, grid) :
              c[1] * grid.columns + c[2] + 1 \in DOMAIN cropOut.icons

\* extract_icons ran on a grid with a collapsed cell and a cell that is not
C12_Witness ==
    /\ cropOut.op = "extract_icons"
    /\ CollapsedCells(raster, grid) # {}
    /\ Len(cropOut.icons) >= 1
    /\ \E c \in CollapsedCells(raster, grid) :
          ClampedBox(raster, grid, c[1], c[2]).x2 > ClampedBox(raster, grid, c[1], c[2]).x1

\* C13: crop_grid returns exactly rows * columns entries, also when cells
\* reach beyond the raster.
C13_OneEntryPerCell ==
    cropOut.op = "crop_grid" => Len(cropOut.icons) = grid.rows * grid.columns

\* crop_grid ran on a grid one of whose cells lies wholly beyond the raster
\* and another of whose cells lies partly beyond it
C13_Witness ==
    /\ cropOut.op = "crop_grid"
    /\ \E c \in Cells(grid) : CellX(grid, c[2]) >= raster.width
    /\ \E c \in Cells(grid) :
          /\ CellX(grid, c[2]) < raster.width
          /\ CellX(grid, c[2]) + grid.cell_width > raster.width

\* C14 as stated: the crop of every cell of crop_grid's result is the part of
\* the raster inside the box whose corners are clamped to the raster.
C14_CropIsClampedBox ==
    cropOut.op = "crop_grid" =>
        \A n \in 0..(Len(cropOut.icons) - 1) :
            LET b == ClampedBox(raster, grid, n \div grid.columns, n % grid.columns)
            IN  cropOut.icons[n + 1]
                    = Region(b.x1, b.y1, Max2(b.x2 - b.x1, 0), Max2(b.y2 - b.y1, 0))

(***************************************************************************)
(* SpecBatch: batch_crop_workspace run on a workspace whose workspace.json *)
(* was written by anyone, whose screenshot files may be missing, and whose *)
(* overlays are saved anew between runs.                                   *)
(***************************************************************************)
SquareGrid ==
    [ start_x |-> 0, start_y |-> 0, cell_width |-> 2, cell_height |-> 2,
      spacing_x |-> 0, spacing_y |-> 0, columns |-> 2, rows |-> 2, crop_padding |-> 0 ]
EdgeGrid ==
    [ start_x |-> 3, start_y |-> 2, cell_width |-> 4, cell_height |-> 3,
      spacing_x |-> 0, spacing_y |-> 0, columns |-> 2, rows |-> 1, crop_padding |-> 0 ]
RowGrid ==
    [ start_x |-> 0, start_y |-> 0, cell_width |-> 2, cell_height |-> 2,
      spacing_x |-> 0, spacing_y |-> 0, columns |-> 3, rows |-> 1, crop_padding |-> 0 ]

BatchOverlayMaps ==
    { [ k \in { IdGrid1, IdOcr1 } |->
          IF k = IdGrid1 THEN Overlay(IdGrid1, "grid", g, FALSE)
          ELSE Overlay(IdOcr1, "ocr", GoodOcr, FALSE) ] : g \in { SquareGrid, EdgeGrid } }
    \cup { [ k \in { IdGrid1 } |-> Overlay(IdGrid1, "grid", RowGrid, FALSE) ] }

BatchBindings1 ==
    { << >>, << IdGrid1 >>, << IdGrid1, IdOcr1 >>, << IdOcr1, IdGrid1 >>,
      << IdGrid9, IdGrid1 >> }

BatchShotLists ==
    { << Shot(File1, FullHd, b) >> : b \in BatchBindings1 }
    \cup { << Shot(File1, FullHd, b1), Shot(File2, FullHd, b2) >> :
             b1 \in BatchBindings1, b2 \in BatchBindings1 }

BatchDocs ==
    { [ DefaultMetadata EXCEPT !.overlays = ovs, !.screenshots = shots ] :
        ovs \in BatchOverlayMaps, shots \in BatchShotLists }

InitBatch ==
    /\ disk \in { JsonFile(d) : d \in BatchDocs } \cup { NoFile, GarbageFile }
    /\ shotFiles \in SUBSET { File1, File2 }
    /\ wsBackups = {}
    /\ BatchIdle /\ CropIdle /\ ResultIdle /\ ValIdle /\ CfgIdle /\ OmIdle /\ EditIdle

BatchCrop ==
    \E emptySave \in EmptySaveOutcomes :
        LET out == BatchCropWorkspace(disk, shotFiles, emptySave)
        IN  /\ batchOut' = [ op |-> "batch_crop_workspace", raised |-> out.raised,
                             error |-> out.error,
                             results |-> IF out.raised THEN NoResults ELSE out.results,
                             written |-> out.written ]
            /\ cropped' = cropped \cup out.written
            /\ UNCHANGED << storeVars, result, cropVars, valVars, cfgVars, omVars, editVars >>

\* the overlays of the workspace are saved anew; the outcome of an earlier
\* batch run is no longer the outcome of the last call
ResaveOverlays ==
    \E ovs \in BatchOverlayMaps :
        LET done == SaveWorkspaceOverlaysOp(disk, shotFiles, ovs)
        IN  /\ disk' = done.file
            /\ shotFiles' = done.files
            /\ result' = done.out
            /\ batchOut' = NoBatch
            /\ UNCHANGED << cropped, wsBackups, cropVars, valVars, cfgVars, omVars, editVars >>

NextBatch == BatchCrop \/ ResaveOverlays

SpecBatch == InitBatch /\ [][NextBatch]_vars

BatchReturned == batchOut.op = "batch_crop_workspace" /\ ~ batchOut.raised

\* the files the last run wrote for the pair (shot, id)
WrittenFor(shot, id) ==
    { p \in batchOut.written : p[2] = shot /\ p[3] = id }

ProcessablePairs(doc, files) ==
    UNION { { ResultKey(doc.screenshots[i].filename, doc.screenshots[i].overlay_bindings[j]) :
                j \in { n \in 1..Len(doc.screenshots[i].overlay_bindings) :
                          LET id == doc.screenshots[i].overlay_bindings[n]
                          IN  /\ id \in DOMAIN doc.overlays
                              /\ doc.overlays[id].type = "grid" } } :
            i \in { n \in 1..Len(doc.screenshots) : doc.screenshots[n].filename \in files } }

\* C16 as stated, for a binding to an overlay id that does not exist: the
\* binding is skipped without aborting, and the result has an entry for
\* exactly the pairs whose screenshot file exists and whose overlay is a
\* grid overlay.
C16_DanglingBindingSkipped ==
    ( /\ batchOut.op = "batch_crop_workspace"
      /\ disk.exists /\ disk.json
      /\ FieldErrors(disk.doc) = {}
      /\ HasDanglingBinding(disk.doc) )
      => /\ ~ batchOut.raised
         /\ DOMAIN batchOut.results = ProcessablePairs(disk.doc, shotFiles)

(***************************************************************************)
(* SpecGridDraw: the select tool and the draw-grid tool of the editor on a *)
(* workspace with an image loaded.  The mouse is pressed, moved with the   *)
(* button down and released on the canvas, and the active tool is          *)
(* switched; every mouse event goes through the ToolManager to the active  *)
(* tool (on_mouse_move and on_mouse_release only while no resize is in     *)
(* progress).  The events the select tool takes (panning) are left out:    *)
(* the view of a behaviour is drawn at Init.  No resize is in progress.    *)
(***************************************************************************)
CanvasPoints == { << 1, 2 >>, << 4, 6 >> }
Views ==
    { View(Zoom(1, 1), << 0, 0 >>, << 0, 0 >>),
      View(Zoom(2, 1), << 0, 0 >>, << 1, 0 >>),
      View(Zoom(1, 2), << 3, 4 >>, << 0, 0 >>) }

SelectedShotDoc(ovs) ==
    [ DefaultMetadata EXCEPT !.selected_screenshot = Some(File1),
                             !.overlays = ovs,
                             !.screenshots = << Shot(File1, FullHd, << >>) >> ]
OneGrid == [ k \in { IdGrid1 } |-> Overlay(IdGrid1, "grid", GoodGrid, FALSE) ]
OneOcr  == [ k \in { IdOcr1 } |-> Overlay(IdOcr1, "ocr", GoodOcr, FALSE) ]
GridDrawDocs == { DefaultMetadata, SelectedShotDoc(EmptyOverlays), SelectedShotDoc(OneGrid) }

InitDraw(docs) ==
    /\ \E doc \in docs :
          /\ disk = JsonFile(doc)
          /\ shotFiles = ShotFilenames(doc)
          /\ overlays = LoadOverlays(doc.overlays).overlays
          /\ dicts = LoadOverlays(doc.overlays).dicts
    /\ wsBackups = {}
    /\ selectedOverlay = None
    /\ omResult = OverlayCall("none", << >>, FALSE, "none")
    /\ view \in Views
    /\ gridEditor = NewGridEditor /\ ocrEditor = NewOcrEditor
    /\ activeTool = "select"
    /\ pointer = PointerUp(<< 0, 0 >>)
    /\ evt = NoEvent
    /\ resizer = NewResize /\ ocrResizer = NewResize
    /\ pressedOverlay = None /\ panner = NewPan
    /\ conv = NoConversion
    /\ ResultIdle /\ ValIdle /\ CfgIdle /\ CropIdle /\ BatchIdle

InitGridDraw == InitDraw(GridDrawDocs)

Editors(ge, oe) == [ grid |-> ge, ocr |-> oe ]

\* on_deactivate of the tool (the select tool's end of a pan is in
\* SetActiveTool)
ToolDeactivate(tool, eds) ==
    IF tool = "draw_grid" THEN Editors(ExitEditMode(eds.grid), eds.ocr)
    ELSE IF tool = "draw_ocr" THEN Editors(eds.grid, ExitOcrEditMode(eds.ocr))
    ELSE eds

\* on_activate of the tool
ToolActivate(tool, eds) ==
    IF tool = "draw_grid" THEN Editors(EnterGridEditMode(eds.grid), eds.ocr)
    ELSE IF tool = "draw_ocr" THEN Editors(eds.grid, EnterOcrEditMode(eds.ocr))
    ELSE eds

\* ToolManager.set_active_tool: the current tool is deactivated, the new
\* one becomes the active tool and is activated
SetActiveToolOp(current, name, eds) == ToolActivate(name, ToolDeactivate(current, eds))

\* the editor's mode buttons: enter_grid_edit_mode, enter_ocr_edit_mode and
\* enter_pan_mode switch the tool
SetActiveTool(name) ==
    LET eds == SetActiveToolOp(activeTool, name, Editors(gridEditor, ocrEditor))
    IN  /\ activeTool' = name
        /\ gridEditor' = eds.grid
        /\ ocrEditor' = eds.ocr
        /\ panner' = IF activeTool = "select" THEN EndPan(panner) ELSE panner
        /\ evt' = Event("set_active_tool", FALSE)
        /\ UNCHANGED << dicts, pointer, view, storeVars, result, omVars,
                        valVars, cfgVars, cropVars, batchVars, resizer, ocrResizer,
                        pressedOverlay, conv >>

\* DrawGridTool.on_mouse_press: on_grid_click
DrawGridPress ==
    \E pt \in CanvasPoints :
        LET r == OnGridClick(gridEditor, dicts[GridScratchRef], pt, view)
        IN  /\ activeTool = "draw_grid"
            /\ ~ pointer.down
            /\ pointer' = [ pos |-> pt, press |-> pt, down |-> TRUE, moved |-> FALSE ]
            /\ gridEditor' = r.ed
            /\ dicts' = StoreDict(dicts, GridScratchRef, r.cfg)
            /\ evt' = Event("press", FALSE)
            /\ UNCHANGED << ocrEditor, activeTool, view, storeVars, result, omVars,
                            valVars, cfgVars, cropVars, batchVars, resizeVars, conv >>

\* DrawGridTool.on_mouse_move: on_grid_drag while is_dragging_cell()
DrawGridMove ==
    \E pt \in CanvasPoints :
        /\ activeTool = "draw_grid"
        /\ pointer.down
        /\ ~ resizer.is_resizing /\ ~ ocrResizer.is_resizing
        /\ pt # pointer.pos
        /\ pointer' = [ pointer EXCEPT !.pos = pt, !.moved = TRUE ]
        /\ gridEditor' = IF IsDraggingCell(gridEditor)
                         THEN OnGridDrag(gridEditor, pt, view)
                         ELSE gridEditor
        /\ evt' = Event("move", FALSE)
        /\ UNCHANGED << ocrEditor, dicts, activeTool, view, storeVars, result, omVars,
                        valVars, cfgVars, cropVars, batchVars, resizeVars, conv >>

\* DrawGridTool.on_mouse_release while is_dragging_cell(): on_grid_release,
\* then a new grid overlay with a copy of grid_config is added, selected
\* and saved, and the select tool takes over; an exception of the save
\* ends the handler there
DrawGridComplete ==
    LET r == OnGridRelease(gridEditor, dicts[GridScratchRef])
        written == StoreDict(dicts, GridScratchRef, r.cfg)
        copied == CopyDict(written, GridScratchRef)
        added == CanvasAddOverlay(overlays, "grid", copied.ref)
        done == SaveCurrentOverlays(disk, shotFiles, added.overlays, copied.dicts)
        eds == SetActiveToolOp(activeTool, "select", Editors(r.ed, ocrEditor))
    IN  /\ NextOverlayNumber(overlays, "grid") <= MaxOverlayNum
        /\ dicts' = copied.dicts
        /\ overlays' = added.overlays
        /\ selectedOverlay' = Some(added.id)
        /\ disk' = done.file
        /\ shotFiles' = done.files
        /\ result' = done.out
        /\ evt' = Event("release", done.out.raised)
        /\ IF done.out.raised
           THEN /\ gridEditor' = r.ed
                /\ UNCHANGED << ocrEditor, activeTool >>
           ELSE /\ gridEditor' = eds.grid
                /\ ocrEditor' = eds.ocr
                /\ activeTool' = "select"

DrawGridRelease ==
    /\ activeTool = "draw_grid"
    /\ pointer.down
    /\ ~ resizer.is_resizing /\ ~ ocrResizer.is_resizing
    /\ pointer' = [ pointer EXCEPT !.down = FALSE ]
    /\ IF IsDraggingCell(gridEditor)
       THEN DrawGridComplete
       ELSE /\ evt' = Event("release", FALSE)
            /\ UNCHANGED << gridEditor, ocrEditor, dicts, activeTool, overlays,
                            selectedOverlay, disk, shotFiles, result >>
    /\ UNCHANGED << view, wsBackups, omResult, valVars, cfgVars, cropVars, batchVars, resizeVars, conv >>

GridTools == { "select", "draw_grid" }

NextGridDraw ==
    \/ \E name \in GridTools : SetActiveTool(name)
    \/ DrawGridPress
    \/ DrawGridMove
    \/ DrawGridRelease

SpecGridDraw == InitGridDraw /\ [][NextGridDraw]_vars

(***************************************************************************)
(* SpecOcrDraw: the select tool and the draw-OCR tool, as SpecGridDraw.    *)
(***************************************************************************)
OcrDrawDocs == { DefaultMetadata, SelectedShotDoc(EmptyOverlays), SelectedShotDoc(OneOcr) }

InitOcrDraw == InitDraw(OcrDrawDocs)

\* DrawOCRTool.on_mouse_press: on_ocr_click
DrawOcrPress ==
    \E pt \in CanvasPoints :
        /\ activeTool = "draw_ocr"
        /\ ~ pointer.down
        /\ pointer' = [ pos |-> pt, press |-> pt, down |-> TRUE, moved |-> FALSE ]
        /\ ocrEditor' = OnOcrClick(ocrEditor, pt, view)
        /\ evt' = Event("press", FALSE)
        /\ UNCHANGED << gridEditor, dicts, activeTool, view, storeVars, result, omVars,
                        valVars, cfgVars, cropVars, batchVars, resizeVars, conv >>

\* DrawOCRTool.on_mouse_move: on_ocr_drag while is_dragging()
DrawOcrMove ==
    \E pt \in CanvasPoints :
        /\ activeTool = "draw_ocr"
        /\ pointer.down
        /\ ~ resizer.is_resizing /\ ~ ocrResizer.is_resizing
        /\ pt # pointer.pos
        /\ pointer' = [ pointer EXCEPT !.pos = pt, !.moved = TRUE ]
        /\ ocrEditor' = IF IsDragging(ocrEditor)
                        THEN OnOcrDrag(ocrEditor, pt, view)
                        ELSE ocrEditor
        /\ evt' = Event("move", FALSE)
        /\ UNCHANGED << gridEditor, dicts, activeTool, view, storeVars, result, omVars,
                        valVars, cfgVars, cropVars, batchVars, resizeVars, conv >>

\* DrawOCRTool.on_mouse_release while is_dragging(): on_ocr_release, then a
\* new OCR overlay with a copy of ocr_config is added, selected and saved,
\* and the select tool takes over; an exception of the save ends the
\* handler there
DrawOcrComplete ==
    LET r == OnOcrRelease(ocrEditor, dicts[OcrScratchRef])
        written == StoreDict(dicts, OcrScratchRef, r.cfg)
        copied == CopyDict(written, OcrScratchRef)
        added == CanvasAddOverlay(overlays, "ocr", copied.ref)
        eds == SetActiveToolOp(activeTool, "select", Editors(gridEditor, r.ed))
    IN  /\ NextOverlayNumber(overlays, "ocr") <= MaxOverlayNum
        /\ dicts' = copied.dicts
        /\ overlays' = added.overlays
        /\ selectedOverlay' = Some(added.id)
        /\ \E done \in { SaveCurrentOverlays(disk, shotFiles, added.overlays,
                                              copied.dicts) } :
              /\ disk' = done.file
              /\ shotFiles' = done.files
              /\ result' = done.out
              /\ evt' = Event("release", done.out.raised)
              /\ IF done.out.raised
                 THEN /\ ocrEditor' = r.ed
                      /\ UNCHANGED << gridEditor, activeTool >>
                 ELSE /\ gridEditor' = eds.grid
                      /\ ocrEditor' = eds.ocr
                      /\ activeTool' = "select"

DrawOcrRelease ==
    /\ activeTool = "draw_ocr"
    /\ pointer.down
    /\ ~ resizer.is_resizing /\ ~ ocrResizer.is_resizing
    /\ pointer' = [ pointer EXCEPT !.down = FALSE ]
    /\ IF IsDragging(ocrEditor)
       THEN DrawOcrComplete
       ELSE /\ evt' = Event("release", FALSE)
            /\ UNCHANGED << gridEditor, ocrEditor, dicts, activeTool, overlays,
                            selectedOverlay, disk, shotFiles, result >>
    /\ UNCHANGED << view, wsBackups, omResult, valVars, cfgVars, cropVars, batchVars, resizeVars, conv >>

OcrTools == { "select", "draw_ocr" }

NextOcrDraw ==
    \/ \E name \in OcrTools : SetActiveTool(name)
    \/ DrawOcrPress
    \/ DrawOcrMove
    \/ DrawOcrRelease

SpecOcrDraw == InitOcrDraw /\ [][NextOcrDraw]_vars

\* the events that are pointer events
PointerOps == { "press", "move", "release" }

\* the position of a step on the path SET_START, SET_CELL, ADJUST
StepRank(step) == IF step = SET_START THEN 0 ELSE IF step = SET_CELL THEN 1 ELSE 2

\* the pointer position in image coordinates
ImagePointer(p) == CanvasToImageCoords(p.pos, view)

\* a pointer event takes the step nowhere or one step forward, and forward
\* only by a press in SET_START or a release in SET_CELL
GridStepForward ==
    LET step == gridEditor.grid_edit_step
        step2 == gridEditor'.grid_edit_step
    IN  /\ StepRank(step2) - StepRank(step) \in { 0, 1 }
        /\ step2 # step => \/ evt'.op = "press" /\ step = SET_START
                           \/ evt'.op = "release" /\ step = SET_CELL

\* a press in SET_START records the pressed point, in image coordinates, as
\* the grid start and moves to SET_CELL
GridPressRecordsStart ==
    (evt'.op = "press" /\ gridEditor.grid_edit_step = SET_START)
       => /\ gridEditor'.grid_edit_step = SET_CELL
          /\ dicts'[GridScratchRef].start_x = ImagePointer(pointer')[1]
          /\ dicts'[GridScratchRef].start_y = ImagePointer(pointer')[2]
          /\ dicts'[GridScratchRef] =
                [ dicts[GridScratchRef] EXCEPT !.start_x = ImagePointer(pointer')[1],
                                               !.start_y = ImagePointer(pointer')[2] ]

\* the release commits the cell size from the start to the current pointer
\* position and moves to ADJUST
GridReleaseCommits ==
    /\ gridEditor'.grid_edit_step = ADJUST
    /\ dicts'[GridScratchRef] =
          [ dicts[GridScratchRef] EXCEPT
              !.cell_width = Abs(ImagePointer(pointer)[1] - dicts[GridScratchRef].start_x),
              !.cell_height = Abs(ImagePointer(pointer)[2] - dicts[GridScratchRef].start_y) ]

C18_AdjustIsTerminal ==
    [][ (evt'.op \in PointerOps /\ gridEditor.grid_edit_step = ADJUST)
          => /\ gridEditor'.grid_edit_step = ADJUST
             /\ dicts'[GridScratchRef] = dicts[GridScratchRef] ]_vars

\* the draw-grid tool is still the active tool in ADJUST, and the mouse
\* was pressed and then moved there
C18_Witness ==
    /\ activeTool = "draw_grid"
    /\ gridEditor.grid_edit_step = ADJUST
    /\ evt.op = "move"
    /\ pointer.down /\ pointer.moved

\* the dict objects the overlays hold
OverlayRefs == { overlays[id].config : id \in DOMAIN overlays }

\* no overlay holds a scratch dict, and no two overlays hold the same dict
ConfigsIndependent ==
    /\ GridScratchRef \notin OverlayRefs
    /\ OcrScratchRef \notin OverlayRefs
    /\ \A a, b \in DOMAIN overlays : a # b => overlays[a].config # overlays[b].config

\* every overlay that exists keeps its dict and the dict keeps its items
ExistingConfigsKept ==
    \A id \in DOMAIN overlays :
        /\ id \in DOMAIN overlays'
        /\ overlays'[id].config = overlays[id].config
        /\ dicts'[overlays[id].config] = dicts[overlays[id].config]

CornerRect(p, q) ==
    OcrCfg(Min2(p[1], q[1]), Min2(p[2], q[2]), Abs(q[1] - p[1]), Abs(q[2] - p[2]))

\* the press point and the release point of the gesture, in image coordinates
ImagePress(p) == CanvasToImageCoords(p.press, view)

\* a release handled by the OCR machine in DEFINE with the press recorded
OcrGestureReleased ==
    /\ evt'.op = "release"
    /\ activeTool = "draw_ocr"
    /\ ocrEditor.edit_step = OCR_DEFINE
    /\ ocrEditor.drag_start = Some(ImagePress(pointer))

\* the rectangle of the press and release points is committed, the same
\* for either order of the two corners, and the step becomes ADJUST
OcrRectCommitted ==
    /\ ocrEditor'.edit_step = ADJUST
    /\ dicts'[OcrScratchRef] = CornerRect(ImagePress(pointer), ImagePointer(pointer))
    /\ dicts'[OcrScratchRef] = CornerRect(ImagePointer(pointer), ImagePress(pointer))

\* C20 as stated: every release that completes the define gesture commits
\* the normalised rectangle of press and release point.
C20_EveryReleaseCommits ==
    [][ OcrGestureReleased => OcrRectCommitted ]_vars

\* C20: completing the OCR define gesture with press point p, at least
\* one pointer-move since the press, and release point q commits
\* x = min(p.x, q.x), y = min(p.y, q.y), width = |q.x - p.x|,
\* height = |q.y - p.y| and moves DEFINE to ADJUST, and the committed
\* rectangle is the same whichever of the two corners was pressed first; a
\* press and release with no move in between commits nothing and leaves
\* the machine in DEFINE.
C20_DragCommitsNormalisedRect ==
    [][ /\ (OcrGestureReleased /\ pointer.moved) => OcrRectCommitted
        /\ (OcrGestureReleased /\ ~ pointer.moved)
              => /\ ocrEditor'.edit_step = OCR_DEFINE
                 /\ dicts'[OcrScratchRef] = dicts[OcrScratchRef] ]_vars

\* a drag from the lower right corner to the upper left one was released
C20_Witness ==
    /\ evt.op = "release"
    /\ pointer.moved
    /\ ocrEditor.edit_step = ADJUST
    /\ ImagePress(pointer)[1] > ImagePointer(pointer)[1]
    /\ ImagePress(pointer)[2] > ImagePointer(pointer)[2]
    /\ dicts[OcrScratchRef] = CornerRect(ImagePress(pointer), ImagePointer(pointer))
    /\ dicts[OcrScratchRef].x = ImagePointer(pointer)[1]
    /\ dicts[OcrScratchRef].width > 0

(***************************************************************************)
(* SpecGridResize and SpecOcrResize: the resize handles of the selected    *)
(* overlay (config_editor on_mouse_move, on_mouse_release,                 *)
(* _on_handle_click and _on_ocr_handle_click).  The workspace has one      *)
(* overlay on the selected screenshot, a grid overlay in SpecGridResize    *)
(* and an OCR overlay in SpecOcrResize; the select tool is active, so the  *)
(* handles of the selected overlay are shown.  The overlay is selected in  *)
(* the list, one of its handles is pressed, the pointer moves with the     *)
(* button down and any of Shift and Ctrl held, and the button is released. *)
(* The press also reaches the select tool, whose pan never moves because   *)
(* on_mouse_move and on_mouse_release return after the resize.  A gesture  *)
(* starts from one of the geometries of ResizeStartGrids and               *)
(* ResizeStartOcrs, which bounds the geometries a behaviour visits.        *)
(***************************************************************************)
ResizeGrid == GridCfg(30, 40, 100, 100, 0)
FlatGrid   == GridCfg(30, 40, 100, 60, 0)
ResizeOcr  == OcrCfg(20, 30, 40, 25)
GridResizeDocs ==
    { SelectedShotDoc([ k \in { IdGrid1 } |-> Overlay(IdGrid1, "grid", g, FALSE) ]) :
        g \in { ResizeGrid, FlatGrid } }
OcrResizeDocs ==
    { SelectedShotDoc([ k \in { IdOcr1 } |-> Overlay(IdOcr1, "ocr", ResizeOcr, FALSE) ]) }
ResizeStartGrids == { ResizeGrid, FlatGrid }
ResizeStartOcrs  == { ResizeOcr }

\* canvas positions of the pointer; a drag may leave the canvas
ResizePoints == { << 0, 0 >>, << 20, -10 >>, << -45, 30 >>, << 140, 40 >> }

\* event.state values: nothing, Shift, Ctrl, Shift and Ctrl
ModifierStates == { 0, ShiftMask, CtrlMask, ShiftMask + CtrlMask }

InitGridResize == InitDraw(GridResizeDocs)
InitOcrResize == InitDraw(OcrResizeDocs)

\* _on_overlay_selected: an entry of the overlay list is chosen; the
\* handler does not look at the pointer or at the resize controllers
OnOverlaySelected(id) ==
    /\ id \in DOMAIN overlays
    /\ selectedOverlay' = Some(id)
    /\ evt' = Event("overlay_selected", FALSE)
    /\ UNCHANGED << overlays, omResult, gridEditor, ocrEditor, dicts, activeTool,
                    pointer, view, resizeVars, storeVars, result, valVars, cfgVars,
                    cropVars, batchVars, conv >>

\* the canvas binding of the same button press, run after the binding of
\* the handle: on_mouse_press hands the event to the active tool, the
\* select tool starts a pan and a draw tool takes the click
ToolPress(tool, eds, pn, h, pt, v) ==
    IF tool = "select"
    THEN [ eds |-> eds, panner |-> StartPan(pn, pt), dicts |-> h ]
    ELSE IF tool = "draw_grid"
    THEN LET r == OnGridClick(eds.grid, h[GridScratchRef], pt, v)
         IN  [ eds |-> Editors(r.ed, eds.ocr), panner |-> pn,
               dicts |-> StoreDict(h, GridScratchRef, r.cfg) ]
    ELSE [ eds |-> Editors(eds.grid, OnOcrClick(eds.ocr, pt, v)), panner |-> pn,
           dicts |-> h ]

\* _on_handle_click: button 1 goes down on a handle of the selected grid
\* overlay (the handles are drawn unless the draw-grid tool is active);
\* its config is copied into grid_config key by key and the resize
\* starts, then the press reaches the active tool
GridHandlePress(tag, pt) ==
    /\ ~ pointer.down
    /\ activeTool # "draw_grid"
    /\ selectedOverlay # None
    /\ overlays[selectedOverlay[1]].type = "grid"
    /\ dicts[overlays[selectedOverlay[1]].config] \in ResizeStartGrids
    /\ LET loaded == StoreDict(dicts, GridScratchRef,
                               dicts[overlays[selectedOverlay[1]].config])
           tool == ToolPress(activeTool, Editors(gridEditor, ocrEditor), panner,
                             loaded, pt, view)
       IN  /\ dicts' = tool.dicts
           /\ resizer' = StartResize(tag, loaded[GridScratchRef], pt, view)
           /\ gridEditor' = tool.eds.grid
           /\ ocrEditor' = tool.eds.ocr
           /\ panner' = tool.panner
    /\ pressedOverlay' = selectedOverlay
    /\ pointer' = [ pos |-> pt, press |-> pt, down |-> TRUE, moved |-> FALSE ]
    /\ evt' = Event("press", FALSE)
    /\ UNCHANGED << ocrResizer, activeTool, view, omVars,
                    storeVars, result, valVars, cfgVars, cropVars, batchVars, conv >>

\* on_mouse_move while the grid resize is in progress
GridResizeMove(pt, state) ==
    /\ pointer.down
    /\ resizer.is_resizing
    /\ dicts' = StoreDict(dicts, GridScratchRef,
                          DoResize(resizer, dicts[GridScratchRef], pt, view, state))
    /\ pointer' = [ pointer EXCEPT !.pos = pt, !.moved = TRUE ]
    /\ evt' = KeyEvent("move", FALSE, state)
    /\ UNCHANGED << resizeVars, gridEditor, ocrEditor, activeTool, view, omVars,
                    storeVars, result, valVars, cfgVars, cropVars, batchVars, conv >>

\* on_mouse_release while the grid resize is in progress: end_resize, the
\* values of grid_config are copied into the selected overlay's config and
\* the overlays are saved
GridResizeRelease ==
    /\ pointer.down
    /\ resizer.is_resizing
    /\ resizer' = EndResize(resizer)
    /\ pointer' = [ pointer EXCEPT !.down = FALSE ]
    /\ IF /\ selectedOverlay # None
          /\ selectedOverlay[1] \in DOMAIN overlays
          /\ overlays[selectedOverlay[1]].type = "grid"
       THEN \E written \in { StoreDict(dicts, overlays[selectedOverlay[1]].config,
                                          dicts[GridScratchRef]) } :
            \E done \in { SaveCurrentOverlays(disk, shotFiles, overlays, written) } :
                /\ dicts' = written
                /\ disk' = done.file
                /\ shotFiles' = done.files
                /\ result' = done.out
                /\ evt' = Event("release", done.out.raised)
       ELSE /\ evt' = Event("release", FALSE)
            /\ UNCHANGED << dicts, disk, shotFiles, result >>
    /\ UNCHANGED << ocrResizer, pressedOverlay, panner, gridEditor, ocrEditor,
                    activeTool, view, omVars,
                    wsBackups, valVars, cfgVars, cropVars, batchVars, conv >>

\* _on_ocr_handle_click: the handles of the selected OCR overlay are drawn
\* unless the draw-OCR tool is active
OcrHandlePress(tag, pt) ==
    /\ ~ pointer.down
    /\ activeTool # "draw_ocr"
    /\ selectedOverlay # None
    /\ overlays[selectedOverlay[1]].type = "ocr"
    /\ dicts[overlays[selectedOverlay[1]].config] \in ResizeStartOcrs
    /\ LET loaded == StoreDict(dicts, OcrScratchRef,
                               dicts[overlays[selectedOverlay[1]].config])
           tool == ToolPress(activeTool, Editors(gridEditor, ocrEditor), panner,
                             loaded, pt, view)
       IN  /\ dicts' = tool.dicts
           /\ ocrResizer' = StartResize(tag, loaded[OcrScratchRef], pt, view)
           /\ gridEditor' = tool.eds.grid
           /\ ocrEditor' = tool.eds.ocr
           /\ panner' = tool.panner
    /\ pressedOverlay' = selectedOverlay
    /\ pointer' = [ pos |-> pt, press |-> pt, down |-> TRUE, moved |-> FALSE ]
    /\ evt' = Event("press", FALSE)
    /\ UNCHANGED << resizer, activeTool, view, omVars,
                    storeVars, result, valVars, cfgVars, cropVars, batchVars, conv >>

\* on_mouse_move while the OCR resize is in progress
OcrResizeMove(pt, state) ==
    /\ pointer.down
    /\ ~ resizer.is_resizing
    /\ ocrResizer.is_resizing
    /\ dicts' = StoreDict(dicts, OcrScratchRef,
                          OcrDoResize(ocrResizer, dicts[OcrScratchRef], pt, view))
    /\ pointer' = [ pointer EXCEPT !.pos = pt, !.moved = TRUE ]
    /\ evt' = KeyEvent("move", FALSE, state)
    /\ UNCHANGED << resizeVars, gridEditor, ocrEditor, activeTool, view, omVars,
                    storeVars, result, valVars, cfgVars, cropVars, batchVars, conv >>

\* on_mouse_release while the OCR resize is in progress
OcrResizeRelease ==
    /\ pointer.down
    /\ ~ resizer.is_resizing
    /\ ocrResizer.is_resizing
    /\ ocrResizer' = OcrEndResize(ocrResizer)
    /\ pointer' = [ pointer EXCEPT !.down = FALSE ]
    /\ IF /\ selectedOverlay # None
          /\ selectedOverlay[1] \in DOMAIN overlays
          /\ overlays[selectedOverlay[1]].type = "ocr"
       THEN \E written \in { StoreDict(dicts, overlays[selectedOverlay[1]].config,
                                          dicts[OcrScratchRef]) } :
            \E done \in { SaveCurrentOverlays(disk, shotFiles, overlays, written) } :
                /\ dicts' = written
                /\ disk' = done.file
                /\ shotFiles' = done.files
                /\ result' = done.out
                /\ evt' = Event("release", done.out.raised)
       ELSE /\ evt' = Event("release", FALSE)
            /\ UNCHANGED << dicts, disk, shotFiles, result >>
    /\ UNCHANGED << resizer, pressedOverlay, panner, gridEditor, ocrEditor,
                    activeTool, view, omVars,
                    wsBackups, valVars, cfgVars, cropVars, batchVars, conv >>

NextGridResize ==
    \/ OnOverlaySelected(IdGrid1)
    \/ \E tag \in GridHandles, pt \in ResizePoints : GridHandlePress(tag, pt)
    \/ \E pt \in ResizePoints, state \in ModifierStates : GridResizeMove(pt, state)
    \/ GridResizeRelease

SpecGridResize == InitGridResize /\ [][NextGridResize]_vars

NextOcrResize ==
    \/ OnOverlaySelected(IdOcr1)
    \/ \E tag \in OcrHandles, pt \in ResizePoints : OcrHandlePress(tag, pt)
    \/ \E pt \in ResizePoints, state \in ModifierStates : OcrResizeMove(pt, state)
    \/ OcrResizeRelease

SpecOcrResize == InitOcrResize /\ [][NextOcrResize]_vars

\* an OCR resize drag step has just been handled
OcrResizeStepDone == evt.op = "move" /\ ocrResizer.is_resizing

\* the bounds the last OCR drag step computed before normalising
OcrRawBounds ==
    LET img == CanvasToImageCoords(pointer.pos, view)
    IN  OcrNewBounds(ocrResizer.resize_mode[1], ocrResizer.resize_original_config[1],
                     img[1] - ocrResizer.resize_start_pos[1][1],
                     img[2] - ocrResizer.resize_start_pos[1][2])

\* C21: after every OCR resize drag step, whatever the handle and the
\* pointer position, the region's width and height are both at least 10; a
\* smaller result is raised to 10, the step is not rejected.
C21_OcrMinimumSize ==
    OcrResizeStepDone =>
        /\ dicts[OcrScratchRef].width >= MinOcrSize
        /\ dicts[OcrScratchRef].height >= MinOcrSize
        /\ dicts[OcrScratchRef].x = Min2(OcrRawBounds[1], OcrRawBounds[3])
        /\ dicts[OcrScratchRef].y = Min2(OcrRawBounds[2], OcrRawBounds[4])

\* a drag step crossed the opposite edge and left fewer than 10 pixels in
\* both directions; the region is 10 by 10
C21_Witness ==
    /\ OcrResizeStepDone
    /\ Abs(OcrRawBounds[3] - OcrRawBounds[1]) < MinOcrSize
    /\ Abs(OcrRawBounds[4] - OcrRawBounds[2]) < MinOcrSize
    /\ dicts[OcrScratchRef].width = MinOcrSize
    /\ dicts[OcrScratchRef].height = MinOcrSize

\* a grid resize drag step has just been handled
GridResizeStepDone == evt.op = "move" /\ resizer.is_resizing

ResizeSnapshot == resizer.resize_original_config[1]
ResizeMode     == resizer.resize_mode[1]

\* the delta of the last drag step, in image space
ResizeDelta ==
    LET img == CanvasToImageCoords(pointer.pos, view)
    IN  << img[1] - resizer.resize_start_pos[1][1],
           img[2] - resizer.resize_start_pos[1][2] >>

\* the handles that drag the left, right, top and bottom side
LeftHandles   == { EdgeLeft, CornerTl, CornerBl }
RightHandles  == { EdgeRight, CornerTr, CornerBr }
TopHandles    == { EdgeTop, CornerTl, CornerTr }
BottomHandles == { EdgeBottom, CornerBl, CornerBr }

\* the side opposite to the dragged handle is where the snapshot has it,
\* and an axis the handle does not drag is as in the snapshot
OppositeSideKept(mode, cfg, orig) ==
    /\ mode \in LeftHandles =>
          cfg.start_x + cfg.cell_width = orig.start_x + orig.cell_width
    /\ mode \in RightHandles => cfg.start_x = orig.start_x
    /\ mode \notin (LeftHandles \cup RightHandles) =>
          cfg.start_x = orig.start_x /\ cfg.cell_width = orig.cell_width
    /\ mode \in TopHandles =>
          cfg.start_y + cfg.cell_height = orig.start_y + orig.cell_height
    /\ mode \in BottomHandles => cfg.start_y = orig.start_y
    /\ mode \notin (TopHandles \cup BottomHandles) =>
          cfg.start_y = orig.start_y /\ cfg.cell_height = orig.cell_height

\* the fields no resize policy sets
LayoutKept(cfg, orig) ==
    /\ cfg.spacing_x = orig.spacing_x /\ cfg.spacing_y = orig.spacing_y
    /\ cfg.columns = orig.columns /\ cfg.rows = orig.rows
    /\ cfg.crop_padding = orig.crop_padding

\* C22: after a drag step with no modifier held, on any of the eight grid
\* handles and for any delta, the edge or corner opposite to the dragged
\* handle is where it was at the press, only the dimensions of the dragged
\* handle have changed, and width and height are at least 1, also when the
\* drag would make the size zero or negative.
C22_DefaultAnchorPolicy ==
    (GridResizeStepDone /\ evt.state = 0) =>
        /\ OppositeSideKept(ResizeMode, dicts[GridScratchRef], ResizeSnapshot)
        /\ LayoutKept(dicts[GridScratchRef], ResizeSnapshot)
        /\ dicts[GridScratchRef].cell_width >= 1
        /\ dicts[GridScratchRef].cell_height >= 1

\* on one axis: the size has changed by twice the delta and the start by
\* the delta the other way, so the centre is where the snapshot has it
SymmetricAbout(start, size, origStart, origSize, delta) ==
    /\ \E s \in { 1, -1 } :
          /\ size = origSize + 2 * s * delta
          /\ start = origStart - s * delta
    /\ 2 * start + size = 2 * origStart + origSize

\* C23: after a drag step with Ctrl held, on any handle and for any delta,
\* start and size have moved symmetrically about the centre of the
\* snapshot: on each axis the handle drags, the size has changed by twice
\* the delta and the start by the delta in the opposite sense, and the
\* centre on that axis is the original centre.
C23_CenterFixedPolicy ==
    (GridResizeStepDone /\ evt.state = CtrlMask) =>
        /\ ResizeMode \in (LeftHandles \cup RightHandles) =>
              SymmetricAbout(dicts[GridScratchRef].start_x,
                             dicts[GridScratchRef].cell_width,
                             ResizeSnapshot.start_x, ResizeSnapshot.cell_width,
                             ResizeDelta[1])
        /\ ResizeMode \in (TopHandles \cup BottomHandles) =>
              SymmetricAbout(dicts[GridScratchRef].start_y,
                             dicts[GridScratchRef].cell_height,
                             ResizeSnapshot.start_y, ResizeSnapshot.cell_height,
                             ResizeDelta[2])

\* width : height is the ratio of the snapshot up to the truncation of each
\* side to an integer: each side is within one pixel of the snapshot's
\* side times a common factor
RatioKept(cfg, orig) ==
    Abs(cfg.cell_width * orig.cell_height - cfg.cell_height * orig.cell_width)
        <= orig.cell_width + orig.cell_height

\* C24: after a drag step with Shift held on a corner handle, one scale
\* factor has been applied to width and height, so that width : height is
\* the snapshot's ratio up to integer truncation, and the corner opposite
\* to the dragged one is where it was at the press.
C24_AspectRatioPolicy ==
    ( /\ GridResizeStepDone
      /\ BitSet(evt.state, ShiftMask)
      /\ StartsWith(ResizeMode, CornerPrefix) ) =>
        /\ RatioKept(dicts[GridScratchRef], ResizeSnapshot)
        /\ OppositeSideKept(ResizeMode, dicts[GridScratchRef], ResizeSnapshot)

\* C25: after a release that ends a grid resize, the config stored in the
\* selected overlay is the config the last drag step produced (grid_config,
\* which the release leaves alone), and the overlay persisted in
\* workspace.json has that config too.
C25_ReleasePersistsResize ==
    (evt.op = "release" /\ selectedOverlay # None) =>
        /\ dicts[overlays[selectedOverlay[1]].config] = dicts[GridScratchRef]
        /\ disk.exists /\ disk.json
        /\ selectedOverlay[1] \in DOMAIN disk.doc.overlays
        /\ disk.doc.overlays[selectedOverlay[1]].config = dicts[GridScratchRef]

\* the numbers of the overlays of a type: an id of the form
\* <prefix>_<digits>, with one underscore, carries the number after the
\* underscore; any other id carries none
UnderscoresOf(id) == { i \in 1..Len(id) : id[i] = "_" }
NumberedIds(ovs, type) ==
    { id \in { ovs[k].id : k \in OverlaysByType(ovs, type) } :
        /\ Cardinality(UnderscoresOf(id)) = 1
        /\ IsDigitString(SubSeq(id, SetMax(UnderscoresOf(id)) + 1, Len(id))) }
SuffixNumbers(ovs, type) ==
    { ParseInt(SubSeq(id, SetMax(UnderscoresOf(id)) + 1, Len(id))) :
        id \in NumberedIds(ovs, type) }

\* C26: generate_overlay_id(type) returns "<type>_<n>" where n is one more
\* than the largest numeric suffix among the ids of the existing overlays
\* of that type, and 1 when no overlay of the type has one: n exceeds every
\* such suffix, and n is 1 or n - 1 is one of them.
C26_GeneratedIdIsMaxPlusOne ==
    omResult.op = "generate_overlay_id" =>
        \E type \in OverlayTypes :
            \E n \in 1..(Cardinality(DOMAIN overlays) + 100) :
                /\ omResult.id = TypeChars(type) \o << "_" >> \o ToDecimal(n)
                /\ \A k \in SuffixNumbers(overlays, type) : k < n
                /\ n = 1 \/ (n - 1) \in SuffixNumbers(overlays, type)

\* an id was generated for a type whose only overlay has the number 2:
\* the result is number 3, not the count plus one
C26_Witness ==
    /\ omResult.op = "generate_overlay_id"
    /\ omResult.id = << "g", "r", "i", "d", "_", "3" >>
    /\ Cardinality(OverlaysByType(overlays, "grid")) = 1

(***************************************************************************)
(* SpecRoundTrip: image_to_canvas_coords and canvas_to_image_coords        *)
(* applied to image points under the zoom levels and pan offsets of        *)
(* RoundTripViews, on a canvas that is not scrolled.  The zoom buttons     *)
(* multiply and divide the zoom by 1.2, so most zoom levels are not whole. *)
(***************************************************************************)
RoundTripZooms ==
    { Zoom(1, 1), Zoom(2, 1), Zoom(5, 2), Zoom(3, 4), Zoom(6, 5), Zoom(5, 6) }
RoundTripPans == { << 0, 0 >>, << 75, 50 >>, << -50, -30 >> }
RoundTripViews == { View(z, p, << 0, 0 >>) : z \in RoundTripZooms, p \in RoundTripPans }
ImagePoints == { << 100, 200 >>, << 0, 0 >>, << 1, 1 >>, << 7, 3 >>, << 64, 9 >> }

InitRoundTrip ==
    /\ view \in RoundTripViews
    /\ conv = NoConversion
    /\ gridEditor = NewGridEditor /\ ocrEditor = NewOcrEditor
    /\ dicts = InitialDicts /\ activeTool = "select"
    /\ pointer = PointerUp(<< 0, 0 >>)
    /\ evt = NoEvent
    /\ resizer = NewResize /\ ocrResizer = NewResize
    /\ pressedOverlay = None /\ panner = NewPan
    /\ OmIdle /\ StoreIdle /\ ResultIdle /\ ValIdle /\ CfgIdle /\ CropIdle /\ BatchIdle

\* image_to_canvas_coords of an image point
ImageToCanvas ==
    \E img \in ImagePoints :
        /\ conv' = [ op |-> "image_to_canvas", arg |-> img,
                     out |-> ImageToCanvasCoords(img, view) ]
        /\ UNCHANGED << gridEditor, ocrEditor, dicts, activeTool, pointer, view, evt,
                        resizeVars, omVars, storeVars, result, valVars, cfgVars,
                        cropVars, batchVars >>

\* canvas_to_image_coords of the canvas point the last conversion returned
CanvasToImage ==
    /\ conv.op = "image_to_canvas"
    /\ conv' = [ op |-> "round_trip", arg |-> conv.arg,
                 out |-> CanvasToImageCoords(conv.out, view) ]
    /\ UNCHANGED << gridEditor, ocrEditor, dicts, activeTool, pointer, view, evt,
                    resizeVars, omVars, storeVars, result, valVars, cfgVars,
                    cropVars, batchVars >>

NextRoundTrip == ImageToCanvas \/ CanvasToImage

SpecRoundTrip == InitRoundTrip /\ [][NextRoundTrip]_vars

\* C27 as stated: converting an image point to canvas coordinates and back
\* returns the same point, for every zoom > 0 and every pan.
C27_RoundTripExact ==
    conv.op = "round_trip" => conv.out = conv.arg

\* on one axis: the result is less than 1 + 1/zoom away from the original
WithinTruncation(back, orig, zoom) ==
    Abs(back - orig) * zoom.num < zoom.num + zoom.den

\* C27, amended: the round trip returns a point that differs from the
\* original by less than 1 + 1/zoom on each axis, and the same point when
\* the zoom is a whole number.
C27_RoundTripWithinTruncation ==
    conv.op = "round_trip" =>
        /\ WithinTruncation(conv.out[1], conv.arg[1], view.zoom)
        /\ WithinTruncation(conv.out[2], conv.arg[2], view.zoom)
        /\ view.zoom.den = 1 => conv.out = conv.arg

\* a round trip at zoom 1.2 with a pan that loses a pixel on both axes
C27_Witness ==
    /\ conv.op = "round_trip"
    /\ view.zoom = Zoom(6, 5) /\ view.pan = << 75, 50 >>
    /\ conv.out[1] = conv.arg[1] - 1
    /\ conv.out[2] = conv.arg[2] - 1

\* every binding of every screenshot names an overlay of the document
BindingsResolve(doc) ==
    \A i \in 1..Len(doc.screenshots) :
        \A j \in 1..Len(doc.screenshots[i].overlay_bindings) :
            doc.screenshots[i].overlay_bindings[j] \in DOMAIN doc.overlays

\* selected_screenshot is null or the filename of a screenshot
SelectedResolves(doc) ==
    \/ doc.selected_screenshot = None
    \/ \E i \in 1..Len(doc.screenshots) :
          doc.screenshots[i].filename = doc.selected_screenshot[1]

\* every overlay is stored under its own id
KeysAreIds(doc) == \A k \in DOMAIN doc.overlays : doc.overlays[k].id = k

\* C28: after any sequence of WorkspaceManager operations (create
\* workspace, add, select and delete screenshot, save overlays, save
\* bindings), whether the last call returned or raised, the persisted
\* workspace.json passes the full validation: it is a JSON document the
\* schema accepts, every binding names an existing overlay,
\* selected_screenshot is null or names an existing screenshot, and every
\* overlay key equals its overlay's id.
C28_PersistedDocumentValid ==
    disk.exists =>
        /\ disk.json
        /\ ModelValidate(disk.doc).ok
        /\ BindingsResolve(disk.doc)
        /\ SelectedResolves(disk.doc)
        /\ KeysAreIds(disk.doc)

\* a call has just raised on a workspace that holds a selected screenshot,
\* a bound overlay and two overlays
C28_Witness ==
    /\ result.raised
    /\ disk.exists
    /\ disk.doc.selected_screenshot # None
    /\ Cardinality(DOMAIN disk.doc.overlays) = 2
    /\ \E i \in 1..Len(disk.doc.screenshots) :
          Len(disk.doc.screenshots[i].overlay_bindings) >= 1

\* the data-model invariants the draw gestures are to establish
GridGeometryValid(cfg) ==
    /\ cfg.start_x >= 0 /\ cfg.start_y >= 0
    /\ cfg.cell_width > 0 /\ cfg.cell_height > 0
OcrGeometryValid(cfg) ==
    /\ cfg.x >= 0 /\ cfg.y >= 0
    /\ cfg.width > 0 /\ cfg.height > 0

\* the release of a draw gesture has just added an overlay and selected it
GestureCompleted == evt.op = "release" /\ selectedOverlay # None

\* C29: the overlay a completed draw gesture creates satisfies the
\* invariants of its type, whatever the press and release positions (a
\* grid overlay has start_x, start_y >= 0 and cell_width, cell_height > 0,
\* an OCR overlay has x, y >= 0 and width, height > 0), and the save made
\* on completion passes validation.
C29_DrawnOverlayValid ==
    GestureCompleted =>
        LET created == overlays[selectedOverlay[1]]
        IN  /\ created.type = "grid" => GridGeometryValid(dicts[created.config])
            /\ created.type = "ocr" => OcrGeometryValid(dicts[created.config])
            /\ ~ evt.raised

\* C30: within one grid resize gesture the geometry after each drag step
\* depends only on the press-time snapshot, the handle, the current delta
\* and the modifier held at that step: it is what a fresh drag from the
\* snapshot to that point with that modifier gives (so every field the
\* active policy does not set has its snapshot value), and a pointer back
\* on the press point restores the snapshot geometry.
C30_StepDependsOnSnapshotOnly ==
    GridResizeStepDone =>
        /\ dicts[GridScratchRef] =
               DoResize(resizer, ResizeSnapshot, pointer.pos, view, evt.state)
        /\ ResizeDelta = <<0, 0>> => dicts[GridScratchRef] = ResizeSnapshot

(***************************************************************************)
(* SpecResizeTarget: a grid resize gesture with the other handlers of the  *)
(* editor running between its press and its release.  The workspace has    *)
(* two screenshots and two grid overlays; an overlay is chosen in the      *)
(* list, the selected overlay is deleted, a screenshot is chosen in the    *)
(* screenshot list and the tool is switched at any time, also while the    *)
(* button is down: none of these handlers looks at the resize              *)
(* controllers.                                                            *)
(***************************************************************************)
TargetOverlays ==
    [ k \in { IdGrid1, IdGrid2 } |->
        IF k = IdGrid1 THEN Overlay(IdGrid1, "grid", ResizeGrid, FALSE)
        ELSE Overlay(IdGrid2, "grid", FlatGrid, FALSE) ]
TargetDocs ==
    { [ DefaultMetadata EXCEPT !.selected_screenshot = Some(File1),
                               !.overlays = TargetOverlays,
                               !.screenshots = << Shot(File1, FullHd, << >>),
                                                  Shot(File2, FullHd, << >>) >> ] }
TargetHandles == { CornerBr }
TargetPoints  == { << 0, 0 >>, << 20, -10 >> }
TargetTools   == { "draw_grid" }
TargetPress   == << 0, 0 >>

\* winfo_width and winfo_height of the canvas
CanvasSize == FullHd

InitResizeTarget == InitDraw(TargetDocs) /\ view = DefaultView

\* center_image: the pan that centres the image at the current zoom (the
\* sizes are even multiples of the zooms used, so the halves are whole)
CenterImage(v, size, canvas) ==
    [ v EXCEPT !.pan =
        << TruncDiv(canvas[1] * v.zoom.den - size[1] * v.zoom.num, 2 * v.zoom.den),
           TruncDiv(canvas[2] * v.zoom.den - size[2] * v.zoom.num, 2 * v.zoom.den) >> ]

\* the dict objects that stay referenced when the overlay manager is
\* cleared: grid_config and ocr_config
ScratchDicts(h) == [ r \in { GridScratchRef, OcrScratchRef } |-> h[r] ]

\* _on_delete_overlay with the question answered yes: the selected overlay,
\* unless locked, is removed, the selection is cleared and the overlays are
\* saved
OnDeleteOverlay ==
    /\ selectedOverlay # None
    /\ selectedOverlay[1] \in DOMAIN overlays
    /\ ~ overlays[selectedOverlay[1]].locked
    /\ \E removed \in { RemoveOverlayOp(overlays, selectedOverlay[1]).overlays } :
       \E done \in { SaveCurrentOverlays(disk, shotFiles, removed, dicts) } :
           /\ overlays' = removed
           /\ selectedOverlay' = None
           /\ disk' = done.file
           /\ shotFiles' = done.files
           /\ result' = done.out
           /\ evt' = Event("delete_overlay", done.out.raised)
    /\ UNCHANGED << omResult, wsBackups, gridEditor, ocrEditor, dicts, activeTool,
                    pointer, view, resizeVars, valVars, cfgVars, cropVars,
                    batchVars, conv >>

\* _on_screenshot_selected: set_selected_screenshot, then
\* _load_selected_screenshot loads and centres the image, clears the
\* overlay manager and the selection and adds the stored overlays
OnScreenshotSelected(filename) ==
    \E set \in { SetSelectedScreenshotOp(disk, shotFiles, filename) } :
    \E loaded \in { LoadMetadata(set.file) } :
        LET shown == /\ ~ set.out.raised
                     /\ ~ loaded.raised
                     /\ loaded.value.selected_screenshot # None
                     /\ loaded.value.selected_screenshot[1] \in set.files
        IN  /\ disk' = set.file
            /\ shotFiles' = set.files
            /\ result' = set.out
            /\ evt' = Event("screenshot_selected", set.out.raised)
            /\ IF shown
               THEN \E fresh \in { LoadOverlaysInto(DOMAIN loaded.value.overlays,
                                                    loaded.value.overlays,
                                                    [ overlays |-> EmptyOverlays,
                                                      dicts |-> ScratchDicts(dicts) ]) } :
                        /\ overlays' = fresh.overlays
                        /\ dicts' = fresh.dicts
                        /\ selectedOverlay' = None
                        /\ view' = CenterImage(view, FullHd, CanvasSize)
               ELSE UNCHANGED << overlays, dicts, selectedOverlay, view >>
            /\ UNCHANGED << omResult, wsBackups, gridEditor, ocrEditor, activeTool,
                            pointer, resizeVars, valVars, cfgVars, cropVars,
                            batchVars, conv >>

NextResizeTarget ==
    \/ \E id \in DOMAIN TargetOverlays : OnOverlaySelected(id)
    \/ \E tag \in TargetHandles : GridHandlePress(tag, TargetPress)
    \/ \E pt \in TargetPoints : GridResizeMove(pt, 0)
    \/ GridResizeRelease
    \/ OnDeleteOverlay
    \/ \E f \in { File1, File2 } : OnScreenshotSelected(f)
    \/ \E name \in TargetTools : SetActiveTool(name)

SpecResizeTarget == InitResizeTarget /\ [][NextResizeTarget]_vars

\* the overlays whose config differs between the two states of a step
ConfigChanged ==
    { id \in DOMAIN overlays \cap DOMAIN overlays' :
        dicts'[overlays'[id].config] # dicts[overlays[id].config] }

\* C31: the overlay whose config is overwritten when a resize is released
\* is the overlay whose config was loaded into the snapshot at the handle
\* press, whatever other events ran between press and release; no other
\* overlay's config changes.
C31_ReleaseWritesPressedOverlay ==
    [][ (resizer.is_resizing /\ ~ resizer'.is_resizing)
          => \A id \in ConfigChanged : pressedOverlay = Some(id) ]_vars

(***************************************************************************)
(* SpecPointer: the pointer interactions of the editor on one canvas: a    *)
(* grid resize, a pan and the drawing of an OCR region (the OCR resize and *)
(* the drawing of a grid cell go through the same handlers).  The          *)
(* workspace has a grid overlay; it is chosen in the list, the tool is     *)
(* switched between the select tool and the draw-OCR tool, and button 1 is *)
(* pressed on a handle of the selected overlay or elsewhere on the canvas, *)
(* moved and released.  A press on a handle runs the handle's binding and  *)
(* then the canvas binding: Tk invokes the bindings of the canvas window   *)
(* in addition to those of its items, whatever the item binding returns.   *)
(***************************************************************************)
PointerOverlays == [ k \in { IdGrid1 } |-> Overlay(IdGrid1, "grid", ResizeGrid, FALSE) ]
PointerDocs == { SelectedShotDoc(PointerOverlays) }
PointerTools == { "select", "draw_ocr" }

\* the largest pan offset, on either axis, a behaviour visits
MaxPan == 4

InitPointer == InitDraw(PointerDocs) /\ view = DefaultView

\* CanvasController.update_pan with an image loaded: the pan offset moves
\* by the pointer's delta since pan_start, which becomes the pointer
UpdatePan(pn, v, pt) ==
    IF ~ pn.is_panning
    THEN [ panner |-> pn, view |-> v ]
    ELSE [ panner |-> [ pn EXCEPT !.pan_start = pt ],
           view |-> [ v EXCEPT !.pan = << v.pan[1] + (pt[1] - pn.pan_start[1]),
                                          v.pan[2] + (pt[2] - pn.pan_start[2]) >> ] ]

\* SelectTool.on_mouse_press on the canvas: a pan starts
SelectPress ==
    \E pt \in CanvasPoints :
        /\ activeTool = "select"
        /\ ~ pointer.down
        /\ pointer' = [ pos |-> pt, press |-> pt, down |-> TRUE, moved |-> FALSE ]
        /\ panner' = StartPan(panner, pt)
        /\ evt' = Event("press", FALSE)
        /\ UNCHANGED << resizer, ocrResizer, pressedOverlay, gridEditor, ocrEditor,
                        dicts, activeTool, view, storeVars, result, omVars, valVars,
                        cfgVars, cropVars, batchVars, conv >>

\* SelectTool.on_mouse_move: update_pan while the tool is panning
SelectMove ==
    \E pt \in CanvasPoints :
        LET r == IF panner.tool_panning THEN UpdatePan(panner, view, pt)
                 ELSE [ panner |-> panner, view |-> view ]
        IN  /\ activeTool = "select"
            /\ pointer.down
            /\ ~ resizer.is_resizing /\ ~ ocrResizer.is_resizing
            /\ pt # pointer.pos
            /\ Abs(r.view.pan[1]) <= MaxPan /\ Abs(r.view.pan[2]) <= MaxPan
            /\ pointer' = [ pointer EXCEPT !.pos = pt, !.moved = TRUE ]
            /\ panner' = r.panner
            /\ view' = r.view
            /\ evt' = Event("move", FALSE)
            /\ UNCHANGED << resizer, ocrResizer, pressedOverlay, gridEditor,
                            ocrEditor, dicts, activeTool, storeVars, result, omVars,
                            valVars, cfgVars, cropVars, batchVars, conv >>

\* SelectTool.on_mouse_release: end_pan when the tool is panning
SelectRelease ==
    /\ activeTool = "select"
    /\ pointer.down
    /\ ~ resizer.is_resizing /\ ~ ocrResizer.is_resizing
    /\ pointer' = [ pointer EXCEPT !.down = FALSE ]
    /\ panner' = EndPan(panner)
    /\ evt' = Event("release", FALSE)
    /\ UNCHANGED << resizer, ocrResizer, pressedOverlay, gridEditor, ocrEditor,
                    dicts, activeTool, view, storeVars, result, omVars, valVars,
                    cfgVars, cropVars, batchVars, conv >>

NextPointer ==
    \/ \E id \in DOMAIN PointerOverlays : OnOverlaySelected(id)
    \/ \E name \in PointerTools : SetActiveTool(name)
    \/ GridHandlePress(CornerBr, TargetPress)
    \/ \E pt \in TargetPoints : GridResizeMove(pt, 0)
    \/ GridResizeRelease
    \/ SelectPress
    \/ SelectMove
    \/ SelectRelease
    \/ DrawOcrPress
    \/ DrawOcrMove
    \/ DrawOcrRelease

SpecPointer == InitPointer /\ [][NextPointer]_vars

\* the pointer interactions in progress
ActiveInteractions ==
    { i \in { "grid_resize", "ocr_resize", "grid_draw", "ocr_draw", "pan" } :
        \/ i = "grid_resize" /\ resizer.is_resizing
        \/ i = "ocr_resize" /\ ocrResizer.is_resizing
        \/ i = "grid_draw" /\ IsDraggingCell(gridEditor)
        \/ i = "ocr_draw" /\ IsDragging(ocrEditor)
        \/ i = "pan" /\ (panner.tool_panning \/ panner.is_panning) }

\* C32: at most one pointer interaction is active in every reachable
\* state: grid resize, OCR resize, grid cell drawing, OCR region drawing
\* and panning are pairwise exclusive.
C32_OneInteraction == Cardinality(ActiveInteractions) <= 1

(***************************************************************************)
(* SpecResizeController: the two resize controllers driven directly.  The  *)
(* caller puts a geometry into the shared config dict and calls            *)
(* on_handle_click; do_resize and end_resize are called at any time, also  *)
(* while no resize is in progress.                                         *)
(***************************************************************************)
InitResizeController ==
    /\ view \in Views
    /\ conv = NoConversion
    /\ gridEditor = NewGridEditor /\ ocrEditor = NewOcrEditor
    /\ dicts = InitialDicts /\ activeTool = "select"
    /\ pointer = PointerUp(<< 0, 0 >>)
    /\ evt = NoEvent
    /\ resizer = NewResize /\ ocrResizer = NewResize
    /\ pressedOverlay = None /\ panner = NewPan
    /\ OmIdle /\ StoreIdle /\ ResultIdle /\ ValIdle /\ CfgIdle /\ CropIdle /\ BatchIdle

\* ResizeController.on_handle_click on a grid_config that holds g
CtlHandleClick(tag, pt, g) ==
    /\ dicts' = StoreDict(dicts, GridScratchRef, g)
    /\ resizer' = StartResize(tag, g, pt, view)
    /\ evt' = Event("on_handle_click", FALSE)
    /\ UNCHANGED << ocrResizer, pressedOverlay, panner, gridEditor, ocrEditor,
                    activeTool, pointer, view, omVars, storeVars, result, valVars,
                    cfgVars, cropVars, batchVars, conv >>

\* ResizeController.do_resize
CtlDoResize(pt, state) ==
    /\ dicts' = StoreDict(dicts, GridScratchRef,
                          DoResize(resizer, dicts[GridScratchRef], pt, view, state))
    /\ evt' = KeyEvent("do_resize", FALSE, state)
    /\ UNCHANGED << resizeVars, gridEditor, ocrEditor, activeTool, pointer, view,
                    omVars, storeVars, result, valVars, cfgVars, cropVars,
                    batchVars, conv >>

\* ResizeController.end_resize
CtlEndResize ==
    /\ resizer' = EndResize(resizer)
    /\ evt' = Event("end_resize", FALSE)
    /\ UNCHANGED << ocrResizer, pressedOverlay, panner, gridEditor, ocrEditor, dicts,
                    activeTool, pointer, view, omVars, storeVars, result, valVars,
                    cfgVars, cropVars, batchVars, conv >>

\* OCRResizeController.on_handle_click on an ocr_config that holds o
CtlOcrHandleClick(tag, pt, o) ==
    /\ dicts' = StoreDict(dicts, OcrScratchRef, o)
    /\ ocrResizer' = StartResize(tag, o, pt, view)
    /\ evt' = Event("ocr_on_handle_click", FALSE)
    /\ UNCHANGED << resizer, pressedOverlay, panner, gridEditor, ocrEditor,
                    activeTool, pointer, view, omVars, storeVars, result, valVars,
                    cfgVars, cropVars, batchVars, conv >>

\* OCRResizeController.do_resize
CtlOcrDoResize(pt) ==
    /\ dicts' = StoreDict(dicts, OcrScratchRef,
                          OcrDoResize(ocrResizer, dicts[OcrScratchRef], pt, view))
    /\ evt' = Event("ocr_do_resize", FALSE)
    /\ UNCHANGED << resizeVars, gridEditor, ocrEditor, activeTool, pointer, view,
                    omVars, storeVars, result, valVars, cfgVars, cropVars,
                    batchVars, conv >>

\* OCRResizeController.end_resize
CtlOcrEndResize ==
    /\ ocrResizer' = OcrEndResize(ocrResizer)
    /\ evt' = Event("ocr_end_resize", FALSE)
    /\ UNCHANGED << resizer, pressedOverlay, panner, gridEditor, ocrEditor, dicts,
                    activeTool, pointer, view, omVars, storeVars, result, valVars,
                    cfgVars, cropVars, batchVars, conv >>

CtlHandles == { CornerBr, CornerTl, EdgeLeft }
CtlPoints  == { << 0, 0 >>, << 20, -10 >> }

NextResizeController ==
    \/ \E tag \in CtlHandles, pt \in CtlPoints, g \in ResizeStartGrids :
           CtlHandleClick(tag, pt, g)
    \/ \E pt \in CtlPoints, state \in { 0, CtrlMask } : CtlDoResize(pt, state)
    \/ CtlEndResize
    \/ \E tag \in CtlHandles, pt \in CtlPoints, o \in ResizeStartOcrs :
           CtlOcrHandleClick(OcrPrefix \o tag, pt, o)
    \/ \E pt \in CtlPoints : CtlOcrDoResize(pt)
    \/ CtlOcrEndResize

SpecResizeController == InitResizeController /\ [][NextResizeController]_vars

\* a handle, a press origin and a config snapshot are all recorded
Recorded(rc) ==
    /\ rc.resize_mode # None
    /\ rc.resize_start_pos # None
    /\ rc.resize_original_config # None

\* none of them is recorded
Cleared(rc) ==
    /\ rc.resize_mode = None
    /\ rc.resize_start_pos = None
    /\ rc.resize_original_config = None

\* C33: in every state of a resize controller is_resizing is true exactly
\* when a handle, a press origin and a config snapshot are all recorded;
\* after end_resize none of them is recorded and is_resizing is false; and
\* a do_resize that arrives while no resize is in progress leaves the
\* controller and the config as they were.
C33_ResizeStateConsistent ==
    /\ [](/\ resizer.is_resizing <=> Recorded(resizer)
          /\ ocrResizer.is_resizing <=> Recorded(ocrResizer))
    /\ [][ /\ evt'.op = "end_resize"
                => ~ resizer'.is_resizing /\ Cleared(resizer')
           /\ evt'.op = "ocr_end_resize"
                => ~ ocrResizer'.is_resizing /\ Cleared(ocrResizer')
           /\ (evt'.op = "do_resize" /\ ~ resizer.is_resizing)
                => dicts' = dicts /\ resizer' = resizer
           /\ (evt'.op = "ocr_do_resize" /\ ~ ocrResizer.is_resizing)
                => dicts' = dicts /\ ocrResizer' = ocrResizer ]_vars

\* a grid resize was made and released, the OCR controller is in the
\* middle of a resize, and a do_resize reached the idle grid controller
C33_Witness ==
    /\ evt.op = "do_resize"
    /\ ~ resizer.is_resizing /\ Cleared(resizer)
    /\ dicts[GridScratchRef] \notin ResizeStartGrids \cup { DefaultGridConfig }
    /\ ocrResizer.is_resizing /\ Recorded(ocrResizer)

(***************************************************************************)
(* SpecAbandon: the two drawing tools and the select tool's press and      *)
(* release, so that a gesture that was begun with a drawing tool can be    *)
(* abandoned by a switch of the tool and the button released under any     *)
(* tool.  Drawings are begun while fewer than MaxDrawn overlays exist.     *)
(***************************************************************************)
AbandonDocs == { SelectedShotDoc(EmptyOverlays) }

InitAbandon == InitDraw(AbandonDocs)

\* the overlays that exist when a drawing may still be begun
MaxDrawn == 1
CanDraw == Cardinality(DOMAIN overlays) < MaxDrawn

NextAbandon ==
    \/ \E name \in GridTools \cup OcrTools : SetActiveTool(name)
    \/ CanDraw /\ DrawGridPress
    \/ DrawGridMove
    \/ DrawGridRelease
    \/ CanDraw /\ DrawOcrPress
    \/ DrawOcrMove
    \/ DrawOcrRelease
    \/ SelectPress
    \/ SelectRelease

SpecAbandon == InitAbandon /\ [][NextAbandon]_vars

\* a drawing is in progress in one of the two editors
Drawing == IsDraggingCell(gridEditor) \/ IsDragging(ocrEditor)

DraggedSidesFollow(mode, cfg, orig, delta) ==
    /\ mode \in LeftHandles => cfg.start_x = orig.start_x + delta[1]
    /\ mode \in RightHandles =>
          cfg.start_x + cfg.cell_width = orig.start_x + orig.cell_width + delta[1]
    /\ mode \in TopHandles => cfg.start_y = orig.start_y + delta[2]
    /\ mode \in BottomHandles =>
          cfg.start_y + cfg.cell_height = orig.start_y + orig.cell_height + delta[2]

\* a symmetric change by the delta leaves both sizes positive
WithinSnapshot(orig, delta) ==
    /\ 2 * Abs(delta[1]) < orig.cell_width
    /\ 2 * Abs(delta[2]) < orig.cell_height

\* C35: after a drag step with Ctrl held that leaves the size positive, the
\* side an edge handle drags is at its position in the snapshot plus the
\* delta on that axis, for each of the four edge handles, as the sides a
\* corner handle drags with Ctrl are.
C35_CtrlEdgeFollowsPointer ==
    ( /\ GridResizeStepDone
      /\ BitSet(evt.state, CtrlMask)
      /\ StartsWith(ResizeMode, EdgePrefix) \/ ~ BitSet(evt.state, ShiftMask)
      /\ WithinSnapshot(ResizeSnapshot, ResizeDelta) ) =>
        DraggedSidesFollow(ResizeMode, dicts[GridScratchRef], ResizeSnapshot,
                           ResizeDelta)

(***************************************************************************)
(* SpecShiftCorner: the corner handles of SpecGridResize dragged from one  *)
(* press point to points that lie on the diagonals of FlatGrid, with and   *)
(* without Shift.                                                          *)
(***************************************************************************)
CornerHandles == { CornerTl, CornerTr, CornerBl, CornerBr }
ShiftPress == << 0, 0 >>
DiagonalPoints == { << 0, 0 >>, << 20, 12 >>, << -20, -12 >>, << 20, -12 >>, << -20, 12 >> }
ShiftStates == { 0, ShiftMask }

NextShiftCorner ==
    \/ OnOverlaySelected(IdGrid1)
    \/ \E tag \in CornerHandles : GridHandlePress(tag, ShiftPress)
    \/ \E pt \in DiagonalPoints, state \in ShiftStates : GridResizeMove(pt, state)
    \/ GridResizeRelease

SpecShiftCorner == InitGridResize /\ [][NextShiftCorner]_vars

\* the sense in which the handle's corner moves away from the opposite
\* corner, on each axis
OutwardX(mode) == IF mode \in RightHandles THEN 1 ELSE -1
OutwardY(mode) == IF mode \in BottomHandles THEN 1 ELSE -1

\* the delta moves the corner away from the opposite corner, toward it,
\* along the diagonal of the snapshot
DragsAway(mode, delta) ==
    OutwardX(mode) * delta[1] > 0 /\ OutwardY(mode) * delta[2] > 0
DragsToward(mode, delta) ==
    OutwardX(mode) * delta[1] < 0 /\ OutwardY(mode) * delta[2] < 0
OnDiagonal(mode, orig, delta) ==
    OutwardX(mode) * delta[1] * orig.cell_height
        = OutwardY(mode) * delta[2] * orig.cell_width

Area(cfg) == cfg.cell_width * cfg.cell_height

\* C36: a drag step with Shift held on a corner handle leaves the rectangle
\* larger than the snapshot when the delta points away from the opposite
\* corner and smaller when it points toward it, and for a delta on the
\* diagonal of the snapshot the step gives the config the no-modifier
\* policy gives for the same handle.
C36_ShiftCornerDirection ==
    [][ ( /\ evt'.op = "move" /\ resizer.is_resizing
          /\ BitSet(evt'.state, ShiftMask)
          /\ ResizeMode \in CornerHandles ) =>
            LET delta == ResizeDelta'
                cfg == dicts'[GridScratchRef]
            IN  /\ DragsAway(ResizeMode, delta) =>
                      /\ cfg.cell_width >= ResizeSnapshot.cell_width
                      /\ cfg.cell_height >= ResizeSnapshot.cell_height
                      /\ Area(cfg) > Area(ResizeSnapshot)
                /\ DragsToward(ResizeMode, delta) =>
                      /\ cfg.cell_width <= ResizeSnapshot.cell_width
                      /\ cfg.cell_height <= ResizeSnapshot.cell_height
                      /\ Area(cfg) < Area(ResizeSnapshot)
                /\ OnDiagonal(ResizeMode, ResizeSnapshot, delta) =>
                      cfg = ResizeCornerDefault(ResizeMode, dicts[GridScratchRef],
                                                ResizeSnapshot, delta[1], delta[2])
      ]_vars

(***************************************************************************)
(* Containment of the crops of crop_grid (SpecCrop).                       *)
(***************************************************************************)
\* the crop holds only pixels of the rectangle [x, x+w) x [y, y+h)
CropWithin(c, x, y, w, h) ==
    (c.w > 0 /\ c.h > 0) =>
        /\ x <= c.x /\ c.x + c.w <= x + w
        /\ y <= c.y /\ c.y + c.h <= y + h

\* C37: every crop of crop_grid on a schema-valid grid config holds only
\* pixels of its own cell rectangle [x, x+cell_width) x [y, y+cell_height)
\* and of the raster, and is at most cell_width wide and cell_height high.
C37_CropInsideCell ==
    cropOut.op = "crop_grid" =>
        \A n \in 0..(Len(cropOut.icons) - 1) :
            LET c == cropOut.icons[n + 1]
                row == n \div grid.columns
                col == n % grid.columns
            IN  /\ CropWithin(c, CellX(grid, col), CellY(grid, row),
                              grid.cell_width, grid.cell_height)
                /\ CropWithin(c, 0, 0, raster.width, raster.height)
                /\ c.w <= grid.cell_width
                /\ c.h <= grid.cell_height

(***************************************************************************)
(* Freshness of generated overlay ids (SpecOverlay).                       *)
(***************************************************************************)
IdOcr2 == << "o", "c", "r", "_", "2" >>
IdOcr3 == << "o", "c", "r", "_", "3" >>

\* C38: the id generate_overlay_id returns is not a key of the overlay map
\* it was generated for, and an add_overlay with a generated id adds one
\* key and leaves every overlay that was there as it was.
C38_GeneratedIdIsFresh ==
    [][ /\ omResult'.op = "generate_overlay_id" => omResult'.id \notin DOMAIN overlays'
        /\ omResult'.op = "add_overlay" =>
              /\ omResult'.id \notin DOMAIN overlays
              /\ DOMAIN overlays' = DOMAIN overlays \cup { omResult'.id }
              /\ \A k \in DOMAIN overlays : overlays'[k] = overlays[k] ]_vars

\* an id was generated for the OCR type after ocr_1 had been removed while
\* ocr_2 and two grid overlays are there
C38_Witness ==
    /\ omResult.op = "generate_overlay_id"
    /\ omResult.id = IdOcr3
    /\ DOMAIN overlays = { IdGrid1, IdGrid2, IdOcr2 }

(***************************************************************************)
(* Operations that name an unknown screenshot or overlay (SpecStore).      *)
(***************************************************************************)
\* the operations that take a screenshot filename
FilenameOps == { "set_selected_screenshot", "delete_screenshot",
                 "save_screenshot_bindings" }

\* the workspace document the call loads
LoadedDoc(file) == LoadMetadata(EnsureWorkspace(file)).value

\* the caller can tell the call failed: an exception, or the False that
\* delete_screenshot returns; save_screenshot_bindings and
\* set_selected_screenshot return None whatever happened
Reported(out) ==
    \/ out.raised
    \/ out.op = "delete_screenshot" /\ ~ out.found

\* nothing is changed beyond the workspace.json that every call creates
\* when there is none
NothingChanged ==
    /\ disk' = EnsureWorkspace(disk)
    /\ shotFiles' = shotFiles

\* C39: a call of set_selected_screenshot, delete_screenshot or
\* save_screenshot_bindings with a filename that is not in the workspace's
\* screenshot list, and a call of save_screenshot_bindings with an overlay
\* id that is not in the workspace's overlays, is reported to the caller as
\* failed and changes nothing.
C39_UnknownNameReported ==
    [][ /\ ( /\ result'.op \in FilenameOps
             /\ result'.phase # "load"
             /\ result'.arg \notin ShotFilenames(LoadedDoc(disk)) )
            => Reported(result') /\ NothingChanged
        /\ \A f \in ShotFilenames(LoadedDoc(disk)), ids \in BindingInputs :
             ( /\ result' = SaveScreenshotBindingsOp(disk, shotFiles, f, ids).out
               /\ disk' = SaveScreenshotBindingsOp(disk, shotFiles, f, ids).file
               /\ \E i \in 1..Len(ids) : ids[i] \notin DOMAIN LoadedDoc(disk).overlays )
             => Reported(result') /\ NothingChanged ]_vars

====
